---- MODULE Spec2Model ----
(***************************************************************************)
(* State-machine model of backend/modules/moex_api.py: the two parquet     *)
(* cache files and their existence flags, the two request functions        *)
(* (get_index_data, get_kline), and the loaders built on them.             *)
(*                                                                         *)
(* A Python function is an operator that takes the process state `s` (a    *)
(* record: both files, both flags, the clock, the remote's coming          *)
(* outcomes and the log of lookups and requests made so far) and returns   *)
(* [s |-> the state after, ret |-> the returned value, exc |-> raised?].   *)
(* An action is one call of a public function with inputs drawn by \E.     *)
(***************************************************************************)
EXTENDS Integers, Sequences, FiniteSets, TLC

VARIABLES
    MOEX_DATA_L,                    \* the membership file: [exists, rows]
    MOEX_DATA_WP,                   \* the price file: [exists, rows]
    is_moex_data_list_file_exists,  \* module-level flag, moex_api.py:40
    is_moex_data_wp_file_exists,    \* module-level flag, moex_api.py:39
    netIndex,                       \* the remote: day -> tickers of the index
    halted,                         \* the remote: tickers with no candles
    last,                           \* the last call: arguments, result, log
    prev,                           \* the call before it (operation, arguments)
    ncalls,                         \* calls made so far
    writers                         \* the processes sharing the files, step by step

vars == <<MOEX_DATA_L, MOEX_DATA_WP, is_moex_data_list_file_exists,
          is_moex_data_wp_file_exists, netIndex, halted, last, prev, ncalls,
          writers>>

----------------------------------------------------------------------------
(* Bounds of the model.                                                    *)

\* The calendar day the process runs on (days are integers).
Today == 40
\* Calls of the cache writers explored from each initial cache.
MaxWrites == 2
\* Calls of the loaders explored from each initial state.
MaxCalls == 2
\* Largest days_back passed to the history collector.
MaxDaysBack == 1
\* Rows the remote puts on one analytics page.
PageSize == 2
\* Longest explicit run of remote outcomes drawn for the request functions.
MaxOutcomes == 5
\* Calls of the history collector explored from each initial state.
MaxHistCalls == 1
\* Largest top_cnt passed to the ranking.
MaxTopCnt == 2
\* Bits of the significand the model's floats keep (a Python float keeps 53).
Precision == 5
\* Most rows of a frame of quotes given to an indicator.
MaxRows == 3

----------------------------------------------------------------------------
(* Values.                                                                 *)

\* pandas' missing value in a numeric column.
NaN == -1
\* Python's None in a ticker column.
NoneTicker == "None"

Tickers == {"A", "B"}

\* A date string. k = "ymd": a string strptime("%Y-%m-%d") accepts, for day
\* `day`; pad tells the zero-padded form strftime writes ("2025-09-05") from
\* another accepted spelling of the same day ("2025-9-5"). k = "empty": "".
\* k = "bad": a string strptime rejects. k = "nonstr": not a str at all.
Ymd(d) == [k |-> "ymd", day |-> d, pad |-> TRUE]
YmdUnpadded(d) == [k |-> "ymd", day |-> d, pad |-> FALSE]
EmptyStr == [k |-> "empty", day |-> 0, pad |-> TRUE]
BadStr == [k |-> "bad", day |-> 0, pad |-> TRUE]
NonStr == [k |-> "nonstr", day |-> 0, pad |-> TRUE]

\* datetime.strftime("%Y-%m-%d"): the time of day is dropped, the day padded.
strftime(dt) == Ymd(dt.day)
\* datetime.strptime(date, "%Y-%m-%d"): midnight of the day, either spelling.
strptime(date) == [day |-> date.day, tod |-> 0]
\* datetime - timedelta(days=n)
minus_days(dt, n) == [day |-> dt.day - n, tod |-> dt.tod]
\* datetime <= datetime
dt_le(a, b) == a.day < b.day \/ (a.day = b.day /\ a.tod <= b.tod)
\* min(a, b) of two datetimes (the first when they are equal)
dt_min(a, b) == IF dt_le(a, b) THEN a ELSE b

\* A Python assignment x = v followed by code F that uses x: v is evaluated
\* once and F reads its value.
Bind(v, F(_)) == CHOOSE r \in {F(x) : x \in {v}} : TRUE

\* A Python dict, in insertion order: a sequence of [k, v] with distinct k.
dict_keys(d) == {d[i].k : i \in 1..Len(d)}
dict_has(d, key) == key \in dict_keys(d)
dict_get(d, key) == d[CHOOSE i \in 1..Len(d) : d[i].k = key].v
dict_set(d, key, val) ==
    LET set(old) ==
            IF dict_has(old, key)
            THEN [i \in 1..Len(old) |->
                     IF old[i].k = key THEN [k |-> key, v |-> val] ELSE old[i]]
            ELSE Append(old, [k |-> key, v |-> val])
    IN  Bind(d, set)
\* d | e: e's entries set into d, in e's order.
dict_or(d, e) ==
    LET f[i \in 0..Len(e)] ==
            IF i = 0 THEN d ELSE dict_set(f[i - 1], e[i].k, e[i].v)
    IN  f[Len(e)]

\* One candle as get_kline's caller keeps it.
Candle(o, h, l, c, v) == [open |-> o, high |-> h, low |-> l, close |-> c, volume |-> v]

----------------------------------------------------------------------------
(* The cache tables (pandas DataFrames as sequences of rows).              *)

NoFile == [exists |-> FALSE, rows |-> <<>>]
File(rows) == [exists |-> TRUE, rows |-> rows]

\* DataFrame.drop_duplicates(subset=["date", "ticker"], keep="first")
drop_duplicates(rows) ==
    LET f[i \in 0..Len(rows)] ==
            IF i = 0 THEN <<>>
            ELSE IF \E j \in 1..(i - 1) :
                        /\ rows[j].date = rows[i].date
                        /\ rows[j].ticker = rows[i].ticker
                 THEN f[i - 1]
                 ELSE Append(f[i - 1], rows[i])
    IN  f[Len(rows)]

\* DataFrame.dropna() on membership rows: a row with a None field goes.
dropna_list(rows) == SelectSeq(rows, LAMBDA r : r.ticker # NoneTicker)

\* DataFrame.dropna() on price rows: a row with a NaN field goes.
dropna_wp(rows) ==
    SelectSeq(rows, LAMBDA r : /\ r.ticker # NoneTicker
                               /\ r.open # NaN /\ r.high # NaN /\ r.low # NaN
                               /\ r.close # NaN /\ r.volume # NaN)

\* _save_moex_list(date, date_from, tickers)
_save_moex_list(s, date, date_from, tickers) ==
    LET df == [i \in 1..Len(tickers) |->
                  [date |-> date, date_from |-> date_from, ticker |-> tickers[i]]]
    IN  IF ~s.flagL
        THEN \* the file is created from df as it is; the flag is set first
             [s |-> [s EXCEPT !.flagL = TRUE, !.L = File(df)], ret |-> <<>>, exc |-> FALSE]
        ELSE IF ~s.L.exists
        THEN \* read_parquet of a missing file raises
             [s |-> s, ret |-> <<>>, exc |-> TRUE]
        ELSE [s |-> [s EXCEPT !.L = File(dropna_list(drop_duplicates(s.L.rows \o df)))],
              ret |-> <<>>, exc |-> FALSE]

\* The rows _save_moex_wp_data builds from its dict argument.
wp_frame(date, data) ==
    [i \in 1..Len(data) |->
        [date |-> date, ticker |-> data[i].k,
         open |-> data[i].v.open, high |-> data[i].v.high, low |-> data[i].v.low,
         close |-> data[i].v.close, volume |-> data[i].v.volume]]

\* A faulty _save_moex_wp_data: the new rows are put before the stored ones,
\* so a written key replaces the stored row (keep="last" in effect).
save_moex_wp_data_new_first(s, date, data) ==
    LET df == wp_frame(date, data)
    IN  IF data = <<>>
        THEN [s |-> s, ret |-> <<>>, exc |-> TRUE]
        ELSE IF ~s.flagWP
        THEN [s |-> [s EXCEPT !.flagWP = TRUE, !.WP = File(df)], ret |-> <<>>, exc |-> FALSE]
        ELSE IF ~s.WP.exists
        THEN [s |-> s, ret |-> <<>>, exc |-> TRUE]
        ELSE [s |-> [s EXCEPT !.WP = File(dropna_wp(drop_duplicates(df \o s.WP.rows)))],
              ret |-> <<>>, exc |-> FALSE]

\* _save_moex_wp_data(date, data)
_save_moex_wp_data(s, date, data) ==
    LET df == wp_frame(date, data)
    IN  IF data = <<>>
        THEN \* an empty dict gives a frame without the price columns: KeyError
             [s |-> s, ret |-> <<>>, exc |-> TRUE]
        ELSE IF ~s.flagWP
        THEN [s |-> [s EXCEPT !.flagWP = TRUE, !.WP = File(df)], ret |-> <<>>, exc |-> FALSE]
        ELSE IF ~s.WP.exists
        THEN [s |-> s, ret |-> <<>>, exc |-> TRUE]
        ELSE [s |-> [s EXCEPT !.WP = File(dropna_wp(drop_duplicates(s.WP.rows \o df)))],
              ret |-> <<>>, exc |-> FALSE]

\* df[(df["date"] == date) & (df["ticker"] == security)]
wp_select(rows, date, security) ==
    SelectSeq(rows, LAMBDA r : r.date = date /\ r.ticker = security)

\* df[df["date"] == date]["ticker"].to_list()
list_select(rows, date) ==
    LET hit == SelectSeq(rows, LAMBDA r : r.date = date)
    IN  [i \in 1..Len(hit) |-> hit[i].ticker]

\* security_data.drop(columns=["date"]).to_dict(orient="records")[0]
first_record(rows) ==
    Candle(rows[1].open, rows[1].high, rows[1].low, rows[1].close, rows[1].volume)

----------------------------------------------------------------------------
(* The process state threaded through the functions.                       *)

\* One entry of the log: a cache lookup or a request sent to the remote.
Event(ev, date, ticker, start, out) ==
    [ev |-> ev, date |-> date, ticker |-> ticker, start |-> start, out |-> out]

logged(s, e) == [s EXCEPT !.log = Append(@, e)]

\* datetime.today(): the clock's reading; with adv the clock has moved on
\* by the next reading, without it the next reading is the same instant.
today(s) ==
    [s |-> [s EXCEPT !.tod = IF s.adv THEN @ + 1 ELSE @],
     ret |-> [day |-> Today, tod |-> s.tod]]

\* What the remote does with the next request to an endpoint ("index" or
\* "kline"): "ok" (a well-formed answer), "fail" (a network error, a non-200
\* status, a body that is not JSON) or "bad" (JSON without the expected
\* keys). Past the outcomes drawn for the endpoint: "ok".
next_outcome(s, ep) == IF s.outcomes[ep] = <<>> THEN "ok" ELSE Head(s.outcomes[ep])
consumed(s, ep) ==
    [s EXCEPT !.outcomes[ep] = IF @ = <<>> THEN @ ELSE Tail(@)]
Outcomes(index, kline) == [index |-> index, kline |-> kline]

----------------------------------------------------------------------------
(* The remote.                                                             *)

AnalyticsCols == {"indexid", "tradedate", "ticker", "shortnames", "secids",
                  "weight", "tradingsession", "trade_session_date"}
KlineCols == {"begin", "open", "high", "low", "close", "volume"}

\* The index's rows the remote holds for a day (their ticker column).
index_rows(day) == IF day \in DOMAIN netIndex THEN netIndex[day] ELSE <<>>

\* The analytics page at offset start.
page(day, start) ==
    LET rows == index_rows(day)
        hi == IF start + PageSize < Len(rows) THEN start + PageSize ELSE Len(rows)
    IN  SubSeq(rows, start + 1, hi)

\* The daily candle the remote holds for a ticker and a day.
base_price(ticker) == IF ticker = "A" THEN 10 ELSE 20
kline_row(ticker, day) ==
    [begin |-> day,
     open |-> base_price(ticker) + (day % 2),
     high |-> base_price(ticker) + 3,
     low |-> base_price(ticker) - 1 - (day % 2),
     close |-> base_price(ticker) + (day % 3),
     volume |-> (IF ticker = "A" THEN 3 ELSE 2) * (1 + (day % 2))
                + (IF ticker = "B" /\ day < Today - 4 THEN 6 ELSE 0)]
candles(ticker, day) ==
    IF ticker \in halted \/ index_rows(day) = <<>>
    THEN <<>>
    ELSE <<kline_row(ticker, day)>>

----------------------------------------------------------------------------
(* moex_api.py, the functions.                                             *)

\* _format_date(date)
_format_date(s, date) ==
    IF date.k = "nonstr" \/ date.k = "bad"
    THEN [s |-> s, ret |-> [day |-> 0, tod |-> 0], exc |-> TRUE]
    ELSE IF date.k = "empty"
    THEN [s |-> today(s).s, ret |-> today(s).ret, exc |-> FALSE]
    ELSE [s |-> today(s).s, ret |-> dt_min(strptime(date), today(s).ret), exc |-> FALSE]

\* A faulty loop of get_index_data: a failed page request returns the rows
\* of the pages fetched before it.
RECURSIVE index_pages_partial(_, _, _, _)
index_pages_partial(s, date, start, all_rows) ==
    LET out == next_outcome(s, "index")
        s1 == logged(consumed(s, "index"), Event("index_req", date, "", start, out))
        rows == page(date.day, start)
    IN  IF out # "ok" \/ rows = <<>>
        THEN [s |-> s1, ret |-> [cols |-> AnalyticsCols, rows |-> all_rows], exc |-> FALSE]
        ELSE Bind(s1, LAMBDA x : index_pages_partial(x, date, start + Len(rows),
                                                    all_rows \o rows))

\* The while loop of get_index_data, from offset start with all_rows fetched.
RECURSIVE index_pages(_, _, _, _)
index_pages(s, date, start, all_rows) ==
    LET out == next_outcome(s, "index")
        s1 == logged(consumed(s, "index"), Event("index_req", date, "", start, out))
        rows == page(date.day, start)
    IN  IF out # "ok"
        THEN \* any exception: the rows fetched so far are dropped
             [s |-> s1, ret |-> [cols |-> AnalyticsCols, rows |-> <<>>], exc |-> FALSE]
        ELSE IF rows = <<>>
        THEN [s |-> s1, ret |-> [cols |-> AnalyticsCols, rows |-> all_rows], exc |-> FALSE]
        ELSE Bind(s1, LAMBDA x : index_pages(x, date, start + Len(rows), all_rows \o rows))

\* get_index_data(index="IMOEX", date)
get_index_data(s, date) == index_pages(s, date, 0, <<>>)

\* The retry loop of get_kline with try_cnt attempts left: the state after
\* it, the attempts left and the payload of the attempt that ended it.
RECURSIVE kline_attempts(_, _, _, _)
kline_attempts(s, security, start_dt, try_cnt) ==
    LET out == next_outcome(s, "kline")
        s1 == logged(consumed(s, "kline"), Event("kline_req", start_dt, security, 0, out))
    IN  IF ~(try_cnt > 0)
        THEN [s |-> s, try_cnt |-> try_cnt, data |-> "none"]
        ELSE IF out = "fail"
        THEN Bind(s1, LAMBDA x : kline_attempts(x, security, start_dt, try_cnt - 1))
        ELSE [s |-> s1, try_cnt |-> try_cnt, data |-> out]

\* A faulty get_kline: the loop runs while try_cnt >= 0, one attempt more.
get_kline_one_more(s, security, start_dt) ==
    LET a == kline_attempts(s, security, start_dt, 6)
    IN  IF a.try_cnt = 0
        THEN [s |-> a.s, ret |-> [cols |-> KlineCols, rows |-> <<>>], exc |-> FALSE]
        ELSE IF a.data = "bad"
        THEN [s |-> a.s, ret |-> [cols |-> {}, rows |-> <<>>], exc |-> TRUE]
        ELSE [s |-> a.s,
              ret |-> [cols |-> KlineCols, rows |-> candles(security, start_dt.day)],
              exc |-> FALSE]

\* get_kline(security, start_dt)
get_kline(s, security, start_dt) ==
    LET a == kline_attempts(s, security, start_dt, 5)
    IN  IF a.try_cnt = 0
        THEN [s |-> a.s, ret |-> [cols |-> KlineCols, rows |-> <<>>], exc |-> FALSE]
        ELSE IF a.data = "bad"
        THEN \* data["candles"] is outside the try: KeyError
             [s |-> a.s, ret |-> [cols |-> {}, rows |-> <<>>], exc |-> TRUE]
        ELSE [s |-> a.s,
              ret |-> [cols |-> KlineCols, rows |-> candles(security, start_dt.day)],
              exc |-> FALSE]

\* A faulty pass of the loop of load_imoex_list: the cache is never looked at.
imoex_pass_no_cache(v, df) ==
    LET ds == strftime(v.date)
        hit == FALSE
        g == get_index_data(logged(v.s, Event("list_cache", ds, "", 0, "miss")), ds)
        imoex_index == IF hit THEN list_select(df, ds) ELSE g.ret.rows
        s1 == IF hit THEN logged(v.s, Event("list_cache", ds, "", 0, "hit")) ELSE g.s
    IN  IF ~(v.try_cnt > 0 /\ v.imoex_index = <<>>)
        THEN v
        ELSE IF imoex_index = <<>>
        THEN [s |-> s1, date |-> minus_days(v.date, 1), imoex_index |-> imoex_index,
              try_cnt |-> v.try_cnt - 1]
        ELSE [s |-> s1, date |-> v.date, imoex_index |-> imoex_index,
              try_cnt |-> v.try_cnt]

\* A faulty pass of the loop of load_imoex_list: the date is stepped back
\* whether or not the day had data.
imoex_pass_always_back(v, df) ==
    LET ds == strftime(v.date)
        hit == v.s.flagL /\ list_select(df, ds) # <<>>
        g == get_index_data(logged(v.s, Event("list_cache", ds, "", 0, "miss")), ds)
        imoex_index == IF hit THEN list_select(df, ds) ELSE g.ret.rows
        s1 == IF hit THEN logged(v.s, Event("list_cache", ds, "", 0, "hit")) ELSE g.s
    IN  IF ~(v.try_cnt > 0 /\ v.imoex_index = <<>>)
        THEN v
        ELSE IF imoex_index = <<>>
        THEN [s |-> s1, date |-> minus_days(v.date, 1), imoex_index |-> imoex_index,
              try_cnt |-> v.try_cnt - 1]
        ELSE [s |-> s1, date |-> minus_days(v.date, 1), imoex_index |-> imoex_index,
              try_cnt |-> v.try_cnt]

\* One pass of the while loop of load_imoex_list over the loop's variables v;
\* df is the table read before the loop; v is left as it is once the loop
\* has ended.
imoex_pass(v, df) ==
    LET ds == strftime(v.date)
        hit == v.s.flagL /\ list_select(df, ds) # <<>>
        g == get_index_data(logged(v.s, Event("list_cache", ds, "", 0, "miss")), ds)
        imoex_index == IF hit THEN list_select(df, ds) ELSE g.ret.rows
        s1 == IF hit THEN logged(v.s, Event("list_cache", ds, "", 0, "hit")) ELSE g.s
    IN  IF ~(v.try_cnt > 0 /\ v.imoex_index = <<>>)
        THEN v
        ELSE IF imoex_index = <<>>
        THEN [s |-> s1, date |-> minus_days(v.date, 1), imoex_index |-> imoex_index,
              try_cnt |-> v.try_cnt - 1]
        ELSE [s |-> s1, date |-> v.date, imoex_index |-> imoex_index,
              try_cnt |-> v.try_cnt]

\* n passes of the loop in a row: the first half of them, then the rest.
RECURSIVE imoex_passes(_, _, _)
imoex_passes(v, df, n) ==
    IF n = 0 THEN v
    ELSE IF n = 1 THEN imoex_pass(v, df)
    ELSE Bind(imoex_passes(v, df, n \div 2),
              LAMBDA w : imoex_passes(w, df, n - (n \div 2)))

\* The while loop: try_cnt bounds the number of its passes.
imoex_search(s, df, date, try_cnt) ==
    imoex_passes([s |-> s, date |-> date, imoex_index |-> <<>>, try_cnt |-> try_cnt],
                 df, try_cnt)

\* load_imoex_list(date). `start` is the day the search starts from.
load_imoex_list(s, date) ==
    LET f == _format_date(s, date)
        t == today(f.s)
        start == IF f.ret = t.ret THEN minus_days(f.ret, 1) ELSE f.ret
        saved(r) ==
            LET w == _save_moex_list(r.s, date, strftime(r.date), r.imoex_index)
            IN  IF w.exc
                THEN [s |-> w.s, ret |-> <<>>, exc |-> TRUE, start |-> start]
                ELSE [s |-> w.s,
                      ret |-> <<[k |-> strftime(r.date), v |-> r.imoex_index]>>,
                      exc |-> FALSE, start |-> start]
    IN  IF f.exc
        THEN \* the handler evaluates date.strftime on the argument: AttributeError
             [s |-> f.s, ret |-> <<>>, exc |-> TRUE, start |-> f.ret]
        ELSE IF t.s.flagL /\ ~t.s.L.exists
        THEN [s |-> t.s, ret |-> <<>>, exc |-> TRUE, start |-> start]
        ELSE Bind(imoex_search(t.s, t.s.L.rows, start, 30), saved)

\* The for loop of load_imoex_list_with_prices from position i of
\* imoex_index: df is the table read before the loop, acc the dict built.
RECURSIVE load_prices(_, _, _, _, _, _)
load_prices(s, df, date, imoex_index, i, acc) ==
    LET security == imoex_index[i]
        cached == wp_select(df, date, security)
        hit == s.flagWP /\ cached # <<>>
        k == get_kline(logged(s, Event("wp_cache", date, security, 0, "miss")),
                       security, date)
        security_data == IF hit THEN cached ELSE k.ret.rows
        s1 == IF hit THEN logged(s, Event("wp_cache", date, security, 0, "hit")) ELSE k.s
    IN  IF i > Len(imoex_index)
        THEN [s |-> s, acc |-> acc, exc |-> FALSE]
        ELSE IF ~hit /\ k.exc
        THEN [s |-> k.s, acc |-> acc, exc |-> TRUE]
        ELSE Bind([s |-> s1,
                   acc |-> IF security_data # <<>>
                           THEN dict_set(acc, security, first_record(security_data))
                           ELSE acc],
                  LAMBDA x : load_prices(x.s, df, date, imoex_index, i + 1, x.acc))

\* A faulty load_imoex_list_with_prices: the result is keyed by last_date, the
\* day load_imoex_list resolved, and not by the requested date.
load_imoex_list_with_prices_last_date(s, date) ==
    LET f == _format_date(s, date)
        ds == strftime(f.ret)
        raised(s1) == [s |-> s1, ret |-> <<>>, exc |-> TRUE, imoex_index |-> <<>>,
                       last_date |-> EmptyStr]
        priced(l) ==
            LET returned(s1, acc) ==
                    [s |-> s1, ret |-> <<[k |-> l.ret[1].k, v |-> acc]>>, exc |-> FALSE,
                     imoex_index |-> l.ret[1].v, last_date |-> l.ret[1].k]
                saved(p) ==
                    LET w == _save_moex_wp_data(p.s, ds, p.acc)
                    IN  IF p.exc THEN raised(p.s)
                        ELSE IF p.acc = <<>> THEN returned(p.s, p.acc)
                        ELSE IF w.exc THEN raised(w.s)
                        ELSE returned(w.s, p.acc)
            IN  IF l.exc THEN raised(l.s)
                ELSE IF l.s.flagWP /\ ~l.s.WP.exists THEN raised(l.s)
                ELSE Bind(load_prices(l.s, l.s.WP.rows, ds, l.ret[1].v, 1, <<>>), saved)
    IN  IF f.exc THEN raised(f.s)
        ELSE Bind(load_imoex_list(f.s, ds), priced)

\* load_imoex_list_with_prices(date). imoex_index is the list the function
\* got from load_imoex_list and last_date the day it got it for.
load_imoex_list_with_prices(s, date) ==
    LET f == _format_date(s, date)
        ds == strftime(f.ret)
        raised(s1) == [s |-> s1, ret |-> <<>>, exc |-> TRUE, imoex_index |-> <<>>,
                       last_date |-> EmptyStr]
        priced(l) ==
            LET returned(s1, acc) ==
                    [s |-> s1, ret |-> <<[k |-> ds, v |-> acc]>>, exc |-> FALSE,
                     imoex_index |-> l.ret[1].v, last_date |-> l.ret[1].k]
                saved(p) ==
                    LET w == _save_moex_wp_data(p.s, ds, p.acc)
                    IN  IF p.exc THEN raised(p.s)
                        ELSE IF p.acc = <<>> THEN returned(p.s, p.acc)
                        ELSE IF w.exc THEN raised(w.s)
                        ELSE returned(w.s, p.acc)
            IN  IF l.exc THEN raised(l.s)
                ELSE IF l.s.flagWP /\ ~l.s.WP.exists THEN raised(l.s)
                ELSE Bind(load_prices(l.s, l.s.WP.rows, ds, l.ret[1].v, 1, <<>>), saved)
    IN  IF f.exc THEN raised(f.s)
        ELSE Bind(load_imoex_list(f.s, ds), priced)

\* The while loop of load_available_history_imoex_list_with_prices_to.
\* A faulty pass of the loop: it runs while len(res) < days_back, one
\* session short.
history_pass_short(v, days_back) ==
    LET ds == strftime(v.date)
        call(tmp) == Append(v.calls, [date |-> ds, exc |-> tmp.exc,
                                      ret |-> IF tmp.exc THEN <<>> ELSE dict_get(tmp.ret, ds)])
        merged(tmp) ==
            IF tmp.exc
            THEN [v EXCEPT !.s = tmp.s, !.exc = TRUE, !.calls = call(tmp)]
            ELSE [s |-> tmp.s, date |-> minus_days(v.date, 1),
                  ret |-> IF dict_get(tmp.ret, ds) # <<>>
                          THEN dict_or(v.ret, tmp.ret)
                          ELSE v.ret,
                  exc |-> FALSE, try_cnt |-> v.try_cnt - 1, calls |-> call(tmp)]
    IN  IF v.exc \/ ~(Len(v.ret) < days_back /\ v.try_cnt > 0)
        THEN v
        ELSE Bind(load_imoex_list_with_prices(v.s, ds), merged)

\* A faulty pass of the loop: an empty session is merged like any other.
history_pass_keep_empty(v, days_back) ==
    LET ds == strftime(v.date)
        call(tmp) == Append(v.calls, [date |-> ds, exc |-> tmp.exc,
                                      ret |-> IF tmp.exc THEN <<>> ELSE dict_get(tmp.ret, ds)])
        merged(tmp) ==
            IF tmp.exc
            THEN [v EXCEPT !.s = tmp.s, !.exc = TRUE, !.calls = call(tmp)]
            ELSE [s |-> tmp.s, date |-> minus_days(v.date, 1),
                  ret |-> IF TRUE
                          THEN dict_or(v.ret, tmp.ret)
                          ELSE v.ret,
                  exc |-> FALSE, try_cnt |-> v.try_cnt - 1, calls |-> call(tmp)]
    IN  IF v.exc \/ ~(Len(v.ret) <= days_back /\ v.try_cnt > 0)
        THEN v
        ELSE Bind(load_imoex_list_with_prices(v.s, ds), merged)

\* A faulty pass of the loop: an empty session does not cost a try.
history_pass_free_miss(v, days_back) ==
    LET ds == strftime(v.date)
        call(tmp) == Append(v.calls, [date |-> ds, exc |-> tmp.exc,
                                      ret |-> IF tmp.exc THEN <<>> ELSE dict_get(tmp.ret, ds)])
        merged(tmp) ==
            IF tmp.exc
            THEN [v EXCEPT !.s = tmp.s, !.exc = TRUE, !.calls = call(tmp)]
            ELSE [s |-> tmp.s, date |-> minus_days(v.date, 1),
                  ret |-> IF dict_get(tmp.ret, ds) # <<>>
                          THEN dict_or(v.ret, tmp.ret)
                          ELSE v.ret,
                  exc |-> FALSE, try_cnt |-> IF dict_get(tmp.ret, ds) # <<>> THEN v.try_cnt - 1 ELSE v.try_cnt, calls |-> call(tmp)]
    IN  IF v.exc \/ ~(Len(v.ret) <= days_back /\ v.try_cnt > 0)
        THEN v
        ELSE Bind(load_imoex_list_with_prices(v.s, ds), merged)

\* One pass of the while loop of
\* load_available_history_imoex_list_with_prices_to over the loop's
\* variables v (ret is res); v is left as it is once the loop has ended.
\* calls keeps, for each call of load_imoex_list_with_prices, its date and
\* the session it returned.
history_pass(v, days_back) ==
    LET ds == strftime(v.date)
        call(tmp) == Append(v.calls, [date |-> ds, exc |-> tmp.exc,
                                      ret |-> IF tmp.exc THEN <<>> ELSE dict_get(tmp.ret, ds)])
        merged(tmp) ==
            IF tmp.exc
            THEN [v EXCEPT !.s = tmp.s, !.exc = TRUE, !.calls = call(tmp)]
            ELSE [s |-> tmp.s, date |-> minus_days(v.date, 1),
                  ret |-> IF dict_get(tmp.ret, ds) # <<>>
                          THEN dict_or(v.ret, tmp.ret)
                          ELSE v.ret,
                  exc |-> FALSE, try_cnt |-> v.try_cnt - 1, calls |-> call(tmp)]
    IN  IF v.exc \/ ~(Len(v.ret) <= days_back /\ v.try_cnt > 0)
        THEN v
        ELSE Bind(load_imoex_list_with_prices(v.s, ds), merged)

\* n passes of the loop in a row: the first half of them, then the rest.
RECURSIVE history_passes(_, _, _)
history_passes(v, days_back, n) ==
    IF n = 0 THEN v
    ELSE IF n = 1 THEN history_pass(v, days_back)
    ELSE Bind(history_passes(v, days_back, n \div 2),
              LAMBDA w : history_passes(w, days_back, n - (n \div 2)))

\* The while loop: try_cnt bounds the number of its passes.
history_back(s, date, days_back, res, try_cnt) ==
    history_passes([s |-> s, date |-> date, ret |-> res, exc |-> FALSE,
                    try_cnt |-> try_cnt, calls |-> <<>>],
                   days_back, try_cnt)

\* load_available_history_imoex_list_with_prices_to(date, days_back).
\* try_cnt is the budget left when the function returns.
load_available_history_imoex_list_with_prices_to(s, date, days_back) ==
    LET f == _format_date(s, date)
    IN  IF f.exc
        THEN [s |-> today(f.s).s,
              ret |-> <<[k |-> strftime(today(f.s).ret), v |-> <<>>]>>,
              exc |-> FALSE, try_cnt |-> 30 + days_back, calls |-> <<>>]
        ELSE history_back(f.s, f.ret, days_back, <<>>, 30 + days_back)

\* One pass of the while loop of load_history_imoex_list_with_prices over
\* the loop's variables v (date is start_date, ret is res); v is left as it
\* is once the loop has ended. calls keeps, for each call of
\* load_imoex_list_with_prices, its date and the session it returned.
range_pass(v, end_date) ==
    LET ds == strftime(v.date)
        call(tmp) == Append(v.calls, [date |-> ds, exc |-> tmp.exc,
                                      ret |-> IF tmp.exc THEN <<>> ELSE dict_get(tmp.ret, ds)])
        merged(tmp) ==
            IF tmp.exc
            THEN [v EXCEPT !.s = tmp.s, !.exc = TRUE, !.calls = call(tmp)]
            ELSE [s |-> tmp.s,
                  \* start_date += timedelta(days=1)
                  date |-> [day |-> v.date.day + 1, tod |-> v.date.tod],
                  ret |-> dict_or(v.ret, tmp.ret),
                  exc |-> FALSE, calls |-> call(tmp)]
    IN  IF v.exc \/ ~dt_le(v.date, end_date)
        THEN v
        ELSE Bind(load_imoex_list_with_prices(v.s, ds), merged)

\* n passes of the loop in a row: the first half of them, then the rest.
RECURSIVE range_passes(_, _, _)
range_passes(v, end_date, n) ==
    IF n = 0 THEN v
    ELSE IF n = 1 THEN range_pass(v, end_date)
    ELSE Bind(range_passes(v, end_date, n \div 2),
              LAMBDA w : range_passes(w, end_date, n - (n \div 2)))

\* The while loop: it ends within one pass per day from start_date to
\* end_date.
range_loop(s, start_date, end_date) ==
    range_passes([s |-> s, date |-> start_date, ret |-> <<>>, exc |-> FALSE,
                  calls |-> <<>>],
                 end_date,
                 IF dt_le(start_date, end_date)
                 THEN end_date.day - start_date.day + 1 ELSE 0)

\* The call load_history_imoex_list_with_prices makes when the two dates
\* are equal.
range_single(s, start_date) ==
    LET ds == strftime(start_date)
        single(tmp) ==
            [s |-> tmp.s, ret |-> tmp.ret, exc |-> tmp.exc,
             calls |-> <<[date |-> ds, exc |-> tmp.exc,
                          ret |-> IF tmp.exc THEN <<>> ELSE dict_get(tmp.ret, ds)]>>]
    IN  Bind(load_imoex_list_with_prices(s, ds), single)

\* A faulty load_history_imoex_list_with_prices: the two dates are
\* formatted outside the try block.
load_history_imoex_list_with_prices_unguarded(s, start_date, end_date) ==
    LET f1 == _format_date(s, start_date)
        f2 == _format_date(f1.s, end_date)
        collected(v) == [s |-> v.s, ret |-> v.ret, exc |-> v.exc, calls |-> v.calls]
    IN  IF f1.exc
        THEN [s |-> f1.s, ret |-> <<>>, exc |-> TRUE, calls |-> <<>>]
        ELSE IF f2.exc
        THEN [s |-> f2.s, ret |-> <<>>, exc |-> TRUE, calls |-> <<>>]
        ELSE IF f1.ret = f2.ret
        THEN range_single(f2.s, f1.ret)
        ELSE Bind(range_loop(f2.s, f1.ret, f2.ret), collected)

\* load_history_imoex_list_with_prices(start_date, end_date)
load_history_imoex_list_with_prices(s, start_date, end_date) ==
    LET f1 == _format_date(s, start_date)
        f2 == _format_date(f1.s, end_date)
        fallback(s1) ==
            [s |-> today(s1).s,
             ret |-> <<[k |-> strftime(today(s1).ret), v |-> <<>>]>>,
             exc |-> FALSE, calls |-> <<>>]
        collected(v) == [s |-> v.s, ret |-> v.ret, exc |-> v.exc, calls |-> v.calls]
    IN  IF f1.exc
        THEN fallback(f1.s)
        ELSE IF f2.exc
        THEN fallback(f2.s)
        ELSE IF f1.ret = f2.ret
        THEN range_single(f2.s, f1.ret)
        ELSE Bind(range_loop(f2.s, f1.ret, f2.ret), collected)

\* securities.get(k, 0) + v["volume"] over the sessions of data_index in
\* order, and in each over its tickers in order: the dict securities.
volume_totals(data_index) ==
    LET items == [i \in 1..Len(data_index) |-> data_index[i].v]
        day[i \in 0..Len(items)] ==
            IF i = 0 THEN <<>>
            ELSE LET added(securities, k, volume) ==
                         dict_set(securities, k,
                                  (IF dict_has(securities, k)
                                   THEN dict_get(securities, k) ELSE 0) + volume)
                     add[j \in 0..Len(items[i])] ==
                         IF j = 0 THEN day[i - 1]
                         ELSE Bind(add[j - 1],
                                   LAMBDA securities :
                                       added(securities, items[i][j].k,
                                             items[i][j].v.volume))
                 IN  add[Len(items[i])]
    IN  day[Len(items)]

\* A faulty sort: an entry goes before the entries of the same volume.
sort_by_volume_unstable(securities) ==
    LET ins[i \in 0..Len(securities)] ==
            IF i = 0 THEN <<>>
            ELSE LET x == securities[i]
                     before == SelectSeq(ins[i - 1], LAMBDA y : y.v > x.v)
                     after == SelectSeq(ins[i - 1], LAMBDA y : ~(y.v > x.v))
                 IN  before \o <<x>> \o after
    IN  ins[Len(securities)]

\* securities.sort(key=lambda x: x[1], reverse=True): a stable sort, entries
\* of the same volume stay in the order they had.
sort_by_volume(securities) ==
    LET ins[i \in 0..Len(securities)] ==
            IF i = 0 THEN <<>>
            ELSE LET x == securities[i]
                     before == SelectSeq(ins[i - 1], LAMBDA y : y.v >= x.v)
                     after == SelectSeq(ins[i - 1], LAMBDA y : ~(y.v >= x.v))
                 IN  before \o <<x>> \o after
    IN  ins[Len(securities)]

\* top_cnt=None is <<>>, top_cnt=n is <<n>>.
NoneCnt == <<>>
Cnt(n) == <<n>>

\* A faulty top_by_volume: it collects days_back sessions back.
top_by_volume_days_back(s, date, days_back, top_cnt) ==
    LET f == _format_date(s, date)
        ds == strftime(f.ret)
        t == today(IF f.exc THEN s ELSE f.s)
        ranking(h) ==
            LET securities == sort_by_volume(volume_totals(h.ret))
                n == IF top_cnt = NoneCnt \/ top_cnt[1] > Len(securities)
                     THEN Len(securities) ELSE top_cnt[1]
            IN  IF h.exc
                THEN [s |-> h.s, ret |-> <<>>, exc |-> TRUE, ranked |-> FALSE,
                      data_index |-> <<>>, collect |-> <<[date |-> ds, days_back |-> days_back]>>]
                ELSE [s |-> h.s,
                      ret |-> [i \in 1..n |-> securities[i].k],
                      exc |-> FALSE, ranked |-> TRUE, data_index |-> h.ret,
                      collect |-> <<[date |-> ds, days_back |-> days_back]>>]
    IN  IF f.exc \/ days_back < 0
        THEN [s |-> t.s, ret |-> <<[k |-> strftime(t.ret), v |-> <<>>]>>,
              exc |-> FALSE, ranked |-> FALSE, data_index |-> <<>>,
              collect |-> <<>>]
        ELSE Bind(load_available_history_imoex_list_with_prices_to(f.s, ds, days_back), ranking)

\* top_by_volume(date, days_back, top_cnt). data_index is the history the
\* function collected and collect the arguments it collected it with;
\* ranked tells the list from the fallback dict.
top_by_volume(s, date, days_back, top_cnt) ==
    LET f == _format_date(s, date)
        ds == strftime(f.ret)
        t == today(IF f.exc THEN s ELSE f.s)
        ranking(h) ==
            LET securities == sort_by_volume(volume_totals(h.ret))
                n == IF top_cnt = NoneCnt \/ top_cnt[1] > Len(securities)
                     THEN Len(securities) ELSE top_cnt[1]
            IN  IF h.exc
                THEN [s |-> h.s, ret |-> <<>>, exc |-> TRUE, ranked |-> FALSE,
                      data_index |-> <<>>, collect |-> <<[date |-> ds, days_back |-> 3]>>]
                ELSE [s |-> h.s,
                      ret |-> [i \in 1..n |-> securities[i].k],
                      exc |-> FALSE, ranked |-> TRUE, data_index |-> h.ret,
                      collect |-> <<[date |-> ds, days_back |-> 3]>>]
    IN  IF f.exc \/ days_back < 0
        THEN [s |-> t.s, ret |-> <<[k |-> strftime(t.ret), v |-> <<>>]>>,
              exc |-> FALSE, ranked |-> FALSE, data_index |-> <<>>,
              collect |-> <<>>]
        ELSE Bind(load_available_history_imoex_list_with_prices_to(f.s, ds, 3), ranking)

----------------------------------------------------------------------------
(* Python floats: binary floating point, every operation rounded to the    *)
(* nearest value of Precision significant bits, ties to even. A float is   *)
(* [m, e], of value m * 2^e, with 2^(Precision-1) <= |m| < 2^Precision or  *)
(* m = 0.                                                                  *)

bit_length(n) == CHOOSE k \in 0..30 : n < 2 ^ k /\ (k = 0 \/ 2 ^ (k - 1) <= n)

\* n * 2^e, n > 0, rounded to a float.
fl_round_pos(n, e) ==
    LET k == bit_length(n) - Precision
        q == n \div (2 ^ k)
        r == n % (2 ^ k)
        up == r > 2 ^ (k - 1) \/ (r = 2 ^ (k - 1) /\ q % 2 = 1)
    IN  IF k <= 0 THEN [m |-> n * 2 ^ (0 - k), e |-> e + k]
        ELSE IF ~up THEN [m |-> q, e |-> e + k]
        ELSE IF q + 1 = 2 ^ Precision THEN [m |-> 2 ^ (Precision - 1), e |-> e + k + 1]
        ELSE [m |-> q + 1, e |-> e + k]

\* n * 2^e rounded to a float.
fl_round(n, e) ==
    IF n = 0 THEN [m |-> 0, e |-> 0]
    ELSE IF n > 0 THEN fl_round_pos(n, e)
    ELSE [m |-> 0 - fl_round_pos(0 - n, e).m, e |-> fl_round_pos(0 - n, e).e]

\* float(n) of an int n
Fl(n) == fl_round(n, 0)

\* NaN, pandas' missing value in a float column; it is no number (m = 0 goes
\* with e = 0 in a number).
FNaN == [m |-> 0, e |-> 1]

\* a * b
fl_mul(a, b) ==
    IF a = FNaN \/ b = FNaN THEN FNaN ELSE fl_round(a.m * b.m, a.e + b.e)

\* a / b, a >= 0, b > 0: the quotient with two bits more than kept and a
\* last bit that tells whether anything was left, then rounded.
fl_div(a, b) ==
    LET n == a.m * 2 ^ (Precision + 2)
        q == 2 * (n \div b.m) + (IF n % b.m = 0 THEN 0 ELSE 1)
    IN  IF a = FNaN \/ b = FNaN THEN FNaN
        ELSE fl_round(q, a.e - b.e - (Precision + 3))

\* a + b
fl_add(a, b) ==
    LET e == IF a.e < b.e THEN a.e ELSE b.e
    IN  IF a = FNaN \/ b = FNaN THEN FNaN
        ELSE IF a.m = 0 THEN b
        ELSE IF b.m = 0 THEN a
        ELSE fl_round(a.m * 2 ^ (a.e - e) + b.m * 2 ^ (b.e - e), e)

\* a - b
fl_sub(a, b) ==
    IF b = FNaN THEN FNaN ELSE fl_add(a, [m |-> 0 - b.m, e |-> b.e])

\* abs(a)
fl_abs(a) == IF a.m < 0 THEN [m |-> 0 - a.m, e |-> a.e] ELSE a

\* inf, what numpy gives for x / 0 with x > 0; it is no number of the form
\* above either.
FInf == [m |-> 1, e |-> 0]

\* a / b of two Series' values, a >= 0 and b >= 0: numpy does not raise on a
\* zero divisor.
np_div(a, b) ==
    IF a = FNaN \/ b = FNaN THEN FNaN
    ELSE IF b.m = 0 THEN (IF a.m = 0 THEN FNaN ELSE FInf)
    ELSE fl_div(a, b)

\* a < b (False when one is NaN)
fl_lt(a, b) ==
    LET e == IF a.e < b.e THEN a.e ELSE b.e
    IN  IF a = FNaN \/ b = FNaN THEN FALSE
        ELSE IF a.m = 0 \/ b.m = 0 THEN a.m < b.m
        ELSE a.m * 2 ^ (a.e - e) < b.m * 2 ^ (b.e - e)

\* a <= b (False when one is NaN)
fl_le(a, b) == a # FNaN /\ b # FNaN /\ ~fl_lt(b, a)

\* a >= b, b finite, a finite or inf or NaN
fl_ge(a, b) == a # FNaN /\ b # FNaN /\ (a = FInf \/ ~fl_lt(a, b))

\* max(prices): the first of the largest.
fl_max(prices) ==
    LET mx[i \in 1..Len(prices)] ==
            IF i = 1 THEN prices[1]
            ELSE IF fl_lt(mx[i - 1], prices[i]) THEN prices[i] ELSE mx[i - 1]
    IN  mx[Len(prices)]

----------------------------------------------------------------------------
(* indicators.py                                                           *)

\* ewi(prices) of equal_weighted_index
ewi(prices) ==
    LET mean(weighted) ==
            LET sum[i \in 0..Len(weighted)] ==
                    IF i = 0 THEN Fl(0)
                    ELSE Bind(sum[i - 1], LAMBDA acc : fl_add(acc, weighted[i]))
            IN  Bind(sum[Len(weighted)], LAMBDA total : fl_div(total, Fl(Len(weighted))))
        weigh(max_price) ==
            Bind([i \in 1..Len(prices) |->
                     Bind(fl_div(max_price, prices[i]),
                          LAMBDA weight : fl_mul(prices[i], weight))],
                 mean)
    IN  Bind(fl_max(prices), weigh)

\* equal_weighted_index(data)
equal_weighted_index(data) ==
    LET field(tickers, f) == [i \in 1..Len(tickers) |-> tickers[i].v[f]]
        index(items) ==
            LET res[i \in 0..Len(items)] ==
                    IF i = 0 THEN <<>>
                    ELSE IF items[i].v = <<>> THEN res[i - 1]
                    ELSE dict_set(res[i - 1], items[i].k,
                                  [open |-> ewi(field(items[i].v, "open")),
                                   high |-> ewi(field(items[i].v, "high")),
                                   low |-> ewi(field(items[i].v, "low")),
                                   close |-> ewi(field(items[i].v, "close"))])
            IN  res[Len(items)]
    IN  Bind(data, index)

\* A faulty row maximum: NaN as soon as one of the values is NaN.
row_max_nan(xs) ==
    LET mx[i \in 1..Len(xs)] ==
            IF i = 1 THEN xs[1]
            ELSE IF mx[i - 1] = FNaN \/ xs[i] = FNaN THEN FNaN
            ELSE IF fl_lt(mx[i - 1], xs[i]) THEN xs[i] ELSE mx[i - 1]
    IN  mx[Len(xs)]

\* DataFrame.max(axis=1) of one row: the largest value that is not NaN, NaN
\* when all are.
row_max(xs) ==
    LET mx[i \in 1..Len(xs)] ==
            IF i = 1 THEN xs[1]
            ELSE IF xs[i] = FNaN THEN mx[i - 1]
            ELSE IF mx[i - 1] = FNaN \/ fl_lt(mx[i - 1], xs[i]) THEN xs[i]
            ELSE mx[i - 1]
    IN  mx[Len(xs)]

\* A faulty direction: the sign of x, 0 for no change.
direction_sign(x) == IF fl_lt(x, Fl(0)) THEN -1 ELSE IF x = Fl(0) THEN 0 ELSE 1

\* lambda x: -1 if x <= 0 else 1
direction(x) == IF fl_le(x, Fl(0)) THEN -1 ELSE 1

\* tr.rolling(period, min_periods=1).mean() at row t: the mean of the values
\* of the window that are not NaN, NaN when there is none. (For period = 1
\* the window is the row alone; a longer window is summed here from its
\* first row.)
rolling_mean(tr, period, t) ==
    LET lo == IF t - period + 1 > 1 THEN t - period + 1 ELSE 1
        obs == SelectSeq(SubSeq(tr, lo, t), LAMBDA x : x # FNaN)
        sum[i \in 0..Len(obs)] ==
            IF i = 0 THEN Fl(0) ELSE fl_add(sum[i - 1], obs[i])
    IN  IF obs = <<>> THEN FNaN ELSE fl_div(sum[Len(obs)], Fl(Len(obs)))

\* atr(security, period): security is a DataFrame.
atr(security, period) ==
    LET prev_close == [t \in 1..Len(security) |->
                          IF t = 1 THEN FNaN ELSE security[t - 1].close]
        tr == [t \in 1..Len(security) |->
                  row_max(<<fl_sub(security[t].high, security[t].low),
                            fl_abs(fl_sub(security[t].high, prev_close[t])),
                            fl_abs(fl_sub(security[t].low, prev_close[t]))>>)]
        frame(atr_col) ==
            [t \in 1..Len(security) |->
                [date |-> security[t].date,
                 atr |-> atr_col[t],
                 atr_pct |-> fl_mul(np_div(atr_col[t], security[t].close), Fl(100)),
                 direction |-> direction(fl_sub(security[t].close, prev_close[t]))]]
    IN  Bind(tr, LAMBDA tr_col :
            Bind([t \in 1..Len(security) |-> rolling_mean(tr_col, period, t)], frame))

\* pd.merge(df1, df2, on="date"): the rows of df1, in order, whose date df2
\* has, each with df2's row of that date (dates do not repeat in df2).
merge_on_date(df1, df2) ==
    LET left == SelectSeq(df1, LAMBDA r : \E j \in DOMAIN df2 : df2[j].date = r.date)
    IN  [i \in 1..Len(left) |->
            [l |-> left[i],
             r |-> df2[CHOOSE j \in DOMAIN df2 : df2[j].date = left[i].date]]]

\* x.rolling(window).corr(y) at row i. There is no value before the window
\* is full, in a window of one row, with a NaN in the window or when one of
\* the series does not vary over it. Two rows correlate at 1 or at -1
\* (rounding in pandas' running sums is left out); wider windows are not
\* modelled, look_back stops at 2.
rolling_corr(x, y, window, i) ==
    IF i < window \/ window < 2 THEN FNaN
    ELSE IF \E j \in (i - window + 1)..i : x[j] = FNaN \/ y[j] = FNaN THEN FNaN
    ELSE IF x[i - 1] = x[i] \/ y[i - 1] = y[i] THEN FNaN
    ELSE IF fl_lt(x[i - 1], x[i]) = fl_lt(y[i - 1], y[i]) THEN Fl(1)
    ELSE Fl(-1)

\* correlation(df1, df2, window): the rows [date, corr] left by dropna().
correlation(df1, df2, window) ==
    LET tmp(r) == fl_mul(r.atr_pct, Fl(r.direction))
        rolled(merged) ==
            LET rows == [i \in 1..Len(merged) |->
                            [date |-> merged[i].date,
                             corr |-> rolling_corr([j \in 1..Len(merged) |-> merged[j].tmp_1],
                                                   [j \in 1..Len(merged) |-> merged[j].tmp_2],
                                                   window, i)]]
            IN  SelectSeq(rows, LAMBDA r : r.corr # FNaN)
        signals(m) ==
            [i \in 1..Len(m) |->
                [date |-> m[i].l.date, tmp_1 |-> tmp(m[i].l), tmp_2 |-> tmp(m[i].r)]]
    IN  Bind(merge_on_date(df1, df2), LAMBDA m : Bind(signals(m), rolled))

\* activity(security, index): the rows [date, activity].
activity(security, index) ==
    LET ratio(merged) ==
            [i \in 1..Len(merged) |->
                [date |-> merged[i].l.date,
                 activity |-> np_div(merged[i].l.atr_pct, merged[i].r.atr_pct)]]
    IN  Bind(merge_on_date(security, index), ratio)

----------------------------------------------------------------------------
(* rotate_sec.py                                                           *)

\* A numeric column of the price file or of a payload as float64.
to_float(x) == IF x = NaN THEN FNaN ELSE Fl(x)

\* The prices of a history as the arithmetic of equal_weighted_index takes
\* them.
float_prices(data_index) ==
    [i \in 1..Len(data_index) |->
        [k |-> data_index[i].k,
         v |-> [j \in 1..Len(data_index[i].v) |->
                   [k |-> data_index[i].v[j].k,
                    v |-> [f \in {"open", "high", "low", "close", "volume"} |->
                              to_float(data_index[i].v[j].v[f])]]]]]

\* sort_values(by="date"): ascending; rows of one date stay in their order.
sort_by_date(rows) ==
    LET put(sorted, x) ==
            SelectSeq(sorted, LAMBDA y : y.date.day <= x.date.day) \o <<x>>
                \o SelectSeq(sorted, LAMBDA y : ~(y.date.day <= x.date.day))
        ins[i \in 0..Len(rows)] ==
            IF i = 0 THEN <<>>
            ELSE Bind(ins[i - 1], LAMBDA sorted : put(sorted, rows[i]))
    IN  ins[Len(rows)]

\* ewi_df: the index as a frame sorted by date.
index_frame(ewi_dict) ==
    Bind([i \in 1..Len(ewi_dict) |->
             [date |-> ewi_dict[i].k, open |-> ewi_dict[i].v.open,
              high |-> ewi_dict[i].v.high, low |-> ewi_dict[i].v.low,
              close |-> ewi_dict[i].v.close]],
         sort_by_date)

\* securities[securities.ticker == sec]: the rows of moex_hist from start_dt
\* to end_dt of a ticker of top_sec, sorted by date.
sec_frame(moex_hist, start_dt, end_dt, top_sec, sec) ==
    LET rows == SelectSeq(moex_hist,
                    LAMBDA r : /\ r.date.day >= start_dt.day
                               /\ r.date.day <= end_dt.day
                               /\ \E i \in DOMAIN top_sec : top_sec[i] = r.ticker
                               /\ r.ticker = sec)
    IN  Bind([i \in 1..Len(rows) |->
                 [date |-> rows[i].date, open |-> to_float(rows[i].open),
                  high |-> to_float(rows[i].high), low |-> to_float(rows[i].low),
                  close |-> to_float(rows[i].close),
                  volume |-> to_float(rows[i].volume)]],
             sort_by_date)

\* The correlation and the activity of a ticker on end_dt, each as the rows
\* of that date.
sec_scores(sec_df, ewi_df, look_back, end_dt) ==
    LET scores(index_atr, sec_atr) ==
            [corr |-> SelectSeq(correlation(sec_atr, index_atr, look_back),
                                LAMBDA r : r.date = end_dt),
             activity |-> SelectSeq(activity(sec_atr, index_atr),
                                    LAMBDA r : r.date = end_dt)]
    IN  Bind(atr(ewi_df, 1), LAMBDA index_atr :
            Bind(atr(sec_df, 1), LAMBDA sec_atr : scores(index_atr, sec_atr)))

\* A faulty get_tradable_securities: it returns early only when the
\* history it collected is empty.
get_tradable_securities_unless_empty(s, date, sec_cnt, look_back, min_act, min_corr) ==
    LET f == _format_date(s, date)
        ds == strftime(f.ret)
        days_back == look_back + 3
        done(s1, ret, exc, data_index, top_sec, moex_hist, ewi_df, reached) ==
            [s |-> s1, ret |-> ret, exc |-> exc, data_index |-> data_index,
             top_sec |-> top_sec, moex_hist |-> moex_hist, ewi_df |-> ewi_df,
             reached |-> reached]
        selected(h, t, ewi_df) ==
            LET top_sec == t.ret
                moex_hist == t.s.WP.rows
                start_dt == ewi_df[1].date
                end_dt == ewi_df[Len(ewi_df)].date
                passes(sc) ==
                    /\ sc.corr # <<>>
                    /\ sc.activity # <<>>
                    /\ fl_ge(sc.corr[1].corr, min_corr)
                    /\ fl_ge(sc.activity[1].activity, min_act)
                good(sec) ==
                    Bind(sec_frame(moex_hist, start_dt, end_dt, top_sec, sec),
                         LAMBDA sec_df :
                             Bind(sec_scores(sec_df, ewi_df, look_back, end_dt), passes))
            IN  IF t.exc \/ ~t.s.WP.exists
                THEN done(t.s, <<>>, TRUE, h.ret, <<>>, <<>>, <<>>, "ranking")
                ELSE done(t.s, SelectSeq(top_sec, good), FALSE, h.ret, top_sec,
                          moex_hist, ewi_df, "scores")
        collected(h) ==
            IF h.exc THEN done(h.s, <<>>, TRUE, <<>>, <<>>, <<>>, <<>>, "history")
            ELSE IF h.ret = <<>>
            THEN done(h.s, <<>>, FALSE, h.ret, <<>>, <<>>, <<>>, "history")
            ELSE Bind(index_frame(equal_weighted_index(float_prices(h.ret))),
                      LAMBDA ewi_df :
                          Bind(top_by_volume(h.s, ds, days_back, Cnt(sec_cnt)),
                               LAMBDA t : selected(h, t, ewi_df)))
    IN  IF f.exc THEN done(f.s, <<>>, FALSE, <<>>, <<>>, <<>>, <<>>, "date")
        ELSE Bind(load_available_history_imoex_list_with_prices_to(f.s, ds, days_back),
                  collected)

\* get_tradable_securities(date, sec_cnt, look_back, min_act, min_corr).
\* data_index, top_sec, moex_hist and ewi_df are the function's variables of
\* these names; reached is the last step the call got to: the date, the
\* history, the ranking, the scores.
get_tradable_securities(s, date, sec_cnt, look_back, min_act, min_corr) ==
    LET f == _format_date(s, date)
        ds == strftime(f.ret)
        days_back == look_back + 3
        done(s1, ret, exc, data_index, top_sec, moex_hist, ewi_df, reached) ==
            [s |-> s1, ret |-> ret, exc |-> exc, data_index |-> data_index,
             top_sec |-> top_sec, moex_hist |-> moex_hist, ewi_df |-> ewi_df,
             reached |-> reached]
        selected(h, t, ewi_df) ==
            LET top_sec == t.ret
                moex_hist == t.s.WP.rows
                start_dt == ewi_df[1].date
                end_dt == ewi_df[Len(ewi_df)].date
                passes(sc) ==
                    /\ sc.corr # <<>>
                    /\ sc.activity # <<>>
                    /\ fl_ge(sc.corr[1].corr, min_corr)
                    /\ fl_ge(sc.activity[1].activity, min_act)
                good(sec) ==
                    Bind(sec_frame(moex_hist, start_dt, end_dt, top_sec, sec),
                         LAMBDA sec_df :
                             Bind(sec_scores(sec_df, ewi_df, look_back, end_dt), passes))
            IN  IF t.exc \/ ~t.s.WP.exists
                THEN done(t.s, <<>>, TRUE, h.ret, <<>>, <<>>, <<>>, "ranking")
                ELSE done(t.s, SelectSeq(top_sec, good), FALSE, h.ret, top_sec,
                          moex_hist, ewi_df, "scores")
        collected(h) ==
            IF h.exc THEN done(h.s, <<>>, TRUE, <<>>, <<>>, <<>>, <<>>, "history")
            ELSE IF ~dict_has(h.ret, ds)
            THEN done(h.s, <<>>, FALSE, h.ret, <<>>, <<>>, <<>>, "history")
            ELSE Bind(index_frame(equal_weighted_index(float_prices(h.ret))),
                      LAMBDA ewi_df :
                          Bind(top_by_volume(h.s, ds, days_back, Cnt(sec_cnt)),
                               LAMBDA t : selected(h, t, ewi_df)))
    IN  IF f.exc THEN done(f.s, <<>>, FALSE, <<>>, <<>>, <<>>, <<>>, "date")
        ELSE Bind(load_available_history_imoex_list_with_prices_to(f.s, ds, days_back),
                  collected)

----------------------------------------------------------------------------
(* The state machine: one action per call of a function.                   *)

\* The process state at the start of a call: the files and flags as they
\* are, the clock reading tod, and the remote's coming outcomes.
Proc(outcomes, tod, adv) ==
    [L |-> MOEX_DATA_L, WP |-> MOEX_DATA_WP,
     flagL |-> is_moex_data_list_file_exists,
     flagWP |-> is_moex_data_wp_file_exists,
     tod |-> tod, adv |-> adv, outcomes |-> outcomes, log |-> <<>>]

\* The record of a call, before its arguments and result are filled in.
NoCall ==
    [op |-> "none", date |-> EmptyStr, end_date |-> EmptyStr, date_from |-> EmptyStr, days_back |-> 0,
     tickers |-> <<>>, data |-> <<>>, security |-> "",
     ret |-> <<>>, exc |-> FALSE, log |-> <<>>,
     start |-> [day |-> 0, tod |-> 0], try_cnt |-> 0,
     top_cnt |-> <<>>, ranked |-> FALSE, period |-> 0, calls |-> <<>>,
     last_date |-> EmptyStr, collect |-> <<>>, reached |-> "",
     env |-> [outcomes |-> Outcomes(<<>>, <<>>), tod |-> 1, adv |-> TRUE],
     look_back |-> 0, min_act |-> Fl(0), min_corr |-> Fl(0),
     moex_hist |-> <<>>, ewi_df |-> <<>>,
     preL |-> NoFile, preWP |-> NoFile, preFlagL |-> FALSE, preFlagWP |-> FALSE]

Called(op) ==
    [NoCall EXCEPT !.op = op,
                   !.preL = MOEX_DATA_L, !.preWP = MOEX_DATA_WP,
                   !.preFlagL = is_moex_data_list_file_exists,
                   !.preFlagWP = is_moex_data_wp_file_exists]

\* What `prev` keeps of a call.
Summary(c) ==
    [op |-> c.op, date |-> c.date, date_from |-> c.date_from,
     days_back |-> c.days_back, tickers |-> c.tickers, data |-> c.data,
     ret |-> c.ret, exc |-> c.exc, env |-> c.env]

\* The call ends in process state s and is recorded as c.
Commit(s, c) ==
    /\ MOEX_DATA_L' = s.L
    /\ MOEX_DATA_WP' = s.WP
    /\ is_moex_data_list_file_exists' = s.flagL
    /\ is_moex_data_wp_file_exists' = s.flagWP
    /\ last' = [c EXCEPT !.log = s.log]
    /\ prev' = Summary(last)
    /\ ncalls' = ncalls + 1
    /\ UNCHANGED <<netIndex, halted, writers>>

\* Inputs.
Candle1 == Candle(10, 13, 9, 11, 3)
Candle2 == Candle(11, 13, 8, 12, 6)
CandleNaN == Candle(10, 13, 9, 11, NaN)
WriteDates == {Ymd(Today - 1), Ymd(Today - 2)}
WriteFroms == {Ymd(Today - 2), Ymd(Today - 3)}
TickerLists == {<<>>, <<"A">>, <<"A", "B">>, <<"A", "A">>, <<"B", NoneTicker>>}
PriceDicts == {<<>>,
               <<[k |-> "A", v |-> Candle1]>>,
               <<[k |-> "A", v |-> Candle2]>>,
               <<[k |-> "A", v |-> CandleNaN], [k |-> "B", v |-> Candle1]>>}

\* A direct call of _save_moex_list.
SaveMoexList ==
    /\ ncalls < MaxWrites
    /\ \E date \in WriteDates, date_from \in WriteFroms, tickers \in TickerLists :
          \E r \in {_save_moex_list(Proc(Outcomes(<<>>, <<>>), 1, TRUE), date, date_from, tickers)} :
              Commit(r.s, [Called("_save_moex_list") EXCEPT
                              !.date = date, !.date_from = date_from,
                              !.tickers = tickers, !.exc = r.exc])

\* A direct call of _save_moex_wp_data.
SaveMoexWpData ==
    /\ ncalls < MaxWrites
    /\ \E date \in WriteDates, data \in PriceDicts :
          \E r \in {_save_moex_wp_data(Proc(Outcomes(<<>>, <<>>), 1, TRUE), date, data)} :
              Commit(r.s, [Called("_save_moex_wp_data") EXCEPT
                              !.date = date, !.data = data, !.exc = r.exc])

\* The caches a process may find at start: none, or files of earlier runs.
InitialLists ==
    {NoFile, File(<<>>),
     File(<<[date |-> Ymd(Today - 1), date_from |-> Ymd(Today - 2), ticker |-> "A"]>>)}
InitialPrices ==
    {NoFile,
     File(wp_frame(Ymd(Today - 1), <<[k |-> "A", v |-> Candle1]>>))}

\* The remote's calendars: which days have an index, and its rows.
Calendar(d1, d2) ==
    [d \in {Today - 2, Today - 1} |-> IF d = Today - 1 THEN d1 ELSE d2]

InitProcess(lists, prices) ==
    /\ MOEX_DATA_L \in lists
    /\ MOEX_DATA_WP \in prices
    /\ is_moex_data_list_file_exists = MOEX_DATA_L.exists
    /\ is_moex_data_wp_file_exists = MOEX_DATA_WP.exists
    /\ last = NoCall
    /\ prev = Summary(NoCall)
    /\ ncalls = 0
    /\ writers = <<>>

\* The cache writers called directly, from any initial cache.
InitCache ==
    /\ InitProcess(InitialLists, InitialPrices)
    /\ netIndex = Calendar(<<"A", "B">>, <<"A">>)
    /\ halted = {}

NextCache == SaveMoexList \/ SaveMoexWpData

SpecCache == InitCache /\ [][NextCache]_vars

\* The outcomes the remote may give to the coming requests of one call.
OutcomeRuns == UNION {[1..n -> {"ok", "fail", "bad"}] : n \in 0..MaxOutcomes}

RequestDates == {Ymd(Today), Ymd(Today - 1), Ymd(Today - 2)}

\* A call of get_kline.
GetKline ==
    /\ ncalls = 0
    /\ \E security \in Tickers, date \in RequestDates, outcomes \in OutcomeRuns :
          \E r \in {get_kline(Proc(Outcomes(<<>>, outcomes), 1, TRUE), security, date)} :
              Commit(r.s, [Called("get_kline") EXCEPT
                              !.security = security, !.date = date,
                              !.ret = r.ret, !.exc = r.exc])

\* A call of get_index_data.
GetIndexData ==
    /\ ncalls = 0
    /\ \E date \in RequestDates, outcomes \in OutcomeRuns :
          \E r \in {get_index_data(Proc(Outcomes(outcomes, <<>>), 1, TRUE), date)} :
              Commit(r.s, [Called("get_index_data") EXCEPT
                              !.date = date, !.ret = r.ret, !.exc = r.exc])

\* Index rows the remote may hold for a day: none, or more than one page
\* (a ticker has one row per trading session of the day).
LongLists == {<<>>, <<"A", "B", "A">>, <<"B", "A", "B", "A", "B">>}

\* The request functions called once, for any remote and any outcomes.
InitNet ==
    /\ InitProcess({NoFile}, {NoFile})
    /\ netIndex \in {Calendar(d1, d2) : d1 \in LongLists, d2 \in LongLists}
    /\ halted \in {{}, {"B"}}

NextNet == GetKline \/ GetIndexData

SpecNet == InitNet /\ [][NextNet]_vars

\* The clock and the remote's outcomes during one call of a loader.
Env(index, kline, tod, adv) ==
    [outcomes |-> Outcomes(index, kline), tod |-> tod, adv |-> adv]
Fails(n) == [i \in 1..n |-> "fail"]

\* The remote answers every request and the clock moves between readings.
Quiet == Env(<<>>, <<>>, 1, TRUE)
\* The clock does not move between two readings.
SameInstant == Env(<<>>, <<>>, 1, FALSE)
\* The call runs at midnight sharp (and the clock does not move).
Midnight == Env(<<>>, <<>>, 0, FALSE)
\* An analytics request fails (the first, the second) or is answered
\* without the expected keys.
IndexEnvs == {Env(<<"fail">>, <<>>, 1, TRUE), Env(<<"bad">>, <<>>, 1, TRUE),
              Env(<<"ok", "fail">>, <<>>, 1, TRUE)}
\* A candle request fails once, fails five times, or is answered without
\* the expected keys.
KlineEnvs == {Env(<<>>, <<"fail">>, 1, TRUE), Env(<<>>, Fails(5), 1, TRUE),
              Env(<<>>, <<"bad">>, 1, TRUE)}

\* The (date, environment) pairs load_imoex_list is called with.
ListCalls ==
    ({Ymd(Today), Ymd(Today - 1), YmdUnpadded(Today - 1), Ymd(Today + 1),
      EmptyStr, BadStr, NonStr} \X {Quiet})
    \cup ({Ymd(Today + 1), EmptyStr} \X {SameInstant})
    \cup ({Ymd(Today)} \X {Midnight})
    \cup ({Ymd(Today - 1)} \X IndexEnvs)

\* The (date, environment) pairs load_imoex_list_with_prices is called with.
PriceCalls ==
    ({Ymd(Today), Ymd(Today - 1), YmdUnpadded(Today - 1), EmptyStr, BadStr}
        \X {Quiet})
    \cup ({Ymd(Today)} \X {Midnight})
    \cup ({Ymd(Today - 1)} \X (IndexEnvs \cup KlineEnvs))

\* A call of load_imoex_list.
LoadImoexList ==
    /\ ncalls < MaxCalls
    /\ \E c \in ListCalls :
          \E r \in {load_imoex_list(Proc(c[2].outcomes, c[2].tod, c[2].adv), c[1])} :
              Commit(r.s, [Called("load_imoex_list") EXCEPT
                              !.date = c[1], !.ret = r.ret, !.exc = r.exc,
                              !.start = r.start, !.env = c[2]])

\* A call of load_imoex_list_with_prices.
LoadImoexListWithPrices ==
    /\ ncalls < MaxCalls
    /\ \E c \in PriceCalls :
          \E r \in {load_imoex_list_with_prices(
                        Proc(c[2].outcomes, c[2].tod, c[2].adv), c[1])} :
              Commit(r.s, [Called("load_imoex_list_with_prices") EXCEPT
                              !.date = c[1], !.ret = r.ret, !.exc = r.exc,
                              !.tickers = r.imoex_index,
                              !.last_date = r.last_date, !.env = c[2]])

\* The remotes: the index rows of yesterday and of the day before (none,
\* the two tickers, or rows that repeat a ticker) and the halted tickers.
World(d1, d2, h) == [index |-> Calendar(d1, d2), halted |-> h]
Worlds ==
    {World(<<"A", "B">>, <<"B", "A", "B">>, {}),
     World(<<"A", "B">>, <<"B", "A", "B">>, {"B"}),
     World(<<"B", "A", "B">>, <<"A", "B">>, {"A", "B"}),
     World(<<"B", "A", "B">>, <<>>, {}),
     World(<<>>, <<"A", "B">>, {}),
     World(<<>>, <<>>, {})}

\* A fresh process (no cache files), any remote.
Init ==
    /\ InitProcess({NoFile}, {NoFile})
    /\ \E w \in Worlds : netIndex = w.index /\ halted = w.halted

Next == LoadImoexList \/ LoadImoexListWithPrices

Spec == Init /\ [][Next]_vars

\* The history collector: each call is given a date, days_back (none, or
\* the largest), and the clock and outcomes of its run.
HistCalls ==
    ({Ymd(Today), Ymd(Today - 1), EmptyStr, BadStr, NonStr} \X {Quiet})
    \cup ({Ymd(Today - 1)} \X {Env(<<"fail">>, <<>>, 1, TRUE),
                                Env(<<>>, <<"ok", "bad">>, 1, TRUE)})

CollectBackward ==
    /\ ncalls < MaxHistCalls
    /\ \E c \in HistCalls, days_back \in {0, MaxDaysBack} :
          \E r \in {load_available_history_imoex_list_with_prices_to(
                        Proc(c[2].outcomes, c[2].tod, c[2].adv), c[1], days_back)} :
              Commit(r.s, [Called("load_available_history_imoex_list_with_prices_to")
                              EXCEPT !.date = c[1], !.days_back = days_back,
                                     !.ret = r.ret, !.exc = r.exc,
                                     !.try_cnt = r.try_cnt, !.calls = r.calls])

\* The process starts without the files, or with the two files an earlier
\* run left.
InitHist ==
    /\ \/ InitProcess({NoFile}, {NoFile})
       \/ InitProcess({File(<<[date |-> Ymd(Today - 1), date_from |-> Ymd(Today - 2),
                               ticker |-> "A"]>>)},
                      {File(wp_frame(Ymd(Today - 1), <<[k |-> "A", v |-> Candle1]>>))})
    /\ \E w \in Worlds : netIndex = w.index /\ halted = w.halted

NextHist == CollectBackward

SpecHist == InitHist /\ [][NextHist]_vars

\* The range collector: each call is given two dates and the clock of its
\* run.
RangeDates == {Ymd(Today - 2), Ymd(Today - 1), Ymd(Today), Ymd(Today + 1),
               EmptyStr, BadStr, NonStr}
RangeCalls ==
    (RangeDates \X RangeDates \X {Quiet})
    \cup {<<EmptyStr, EmptyStr, SameInstant>>,
          <<Ymd(Today + 1), Ymd(Today + 1), SameInstant>>}
    \cup {<<Ymd(Today - 2), Ymd(Today - 1), Env(<<"fail">>, <<>>, 1, TRUE)>>}

CollectRange ==
    /\ ncalls = 0
    /\ \E c \in RangeCalls :
          \E r \in {load_history_imoex_list_with_prices(
                        Proc(c[3].outcomes, c[3].tod, c[3].adv), c[1], c[2])} :
              Commit(r.s, [Called("load_history_imoex_list_with_prices")
                              EXCEPT !.date = c[1], !.end_date = c[2],
                                     !.ret = r.ret, !.exc = r.exc,
                                     !.calls = r.calls])

\* The two collectors, against the remotes whose index has rows.
InitRange ==
    /\ InitProcess({NoFile}, {NoFile})
    /\ \E w \in Worlds :
          /\ \E day \in DOMAIN w.index : w.index[day] # <<>>
          /\ netIndex = w.index
          /\ halted = w.halted

NextRange == CollectRange \/ CollectBackward

SpecRange == InitRange /\ [][NextRange]_vars

\* The indicators, as functions of their argument alone. Price histories:
\* one or two dates, each with no ticker, A, or A and B; a candle's four
\* prices are floats.
Prices == {Fl(3), Fl(12), Fl(16), Fl(25)}
PriceCandle(o, c) == [open |-> o, high |-> Fl(25), low |-> Fl(3), close |-> c,
                      volume |-> Fl(1)]
Sessions ==
    {<<>>}
    \cup {<<[k |-> "A", v |-> PriceCandle(a, a)]>> : a \in Prices}
    \cup {<<[k |-> "A", v |-> PriceCandle(a, b)], [k |-> "B", v |-> PriceCandle(b, a)]>> :
             a \in Prices, b \in Prices}
Histories ==
    {<<[k |-> Ymd(Today - 1), v |-> x]>> : x \in Sessions}
    \cup {<<[k |-> Ymd(Today - 1), v |-> x], [k |-> Ymd(Today - 2), v |-> y]>> :
             x \in Sessions, y \in Sessions}

EqualWeightedIndex ==
    /\ ncalls = 0
    /\ \E data \in Histories :
          Commit(Proc(Outcomes(<<>>, <<>>), 1, TRUE),
                 [Called("equal_weighted_index")
                     EXCEPT !.data = data, !.ret = equal_weighted_index(data)])

\* Quotes of one security: up to MaxRows rows of consecutive days, each one
\* of a few bars (low, close, high), closes repeating or not.
Bars == {<<3, 12, 16>>, <<12, 12, 25>>, <<12, 16, 16>>, <<3, 3, 25>>}
Quotes ==
    UNION {{[t \in 1..n |->
                [date |-> Ymd(Today - n + t), open |-> Fl(b[t][2]),
                 high |-> Fl(b[t][3]), low |-> Fl(b[t][1]), close |-> Fl(b[t][2]),
                 volume |-> Fl(1)]] : b \in [1..n -> Bars]} : n \in 0..MaxRows}
Periods == {1, 2}

Atr ==
    /\ ncalls = 0
    /\ \E security \in Quotes, period \in Periods :
          Commit(Proc(Outcomes(<<>>, <<>>), 1, TRUE),
                 [Called("atr") EXCEPT !.data = security, !.period = period,
                                       !.ret = atr(security, period)])

InitInd ==
    /\ InitProcess({NoFile}, {NoFile})
    /\ netIndex = Calendar(<<>>, <<>>)
    /\ halted = {}

NextInd == EqualWeightedIndex \/ Atr

SpecInd == InitInd /\ [][NextInd]_vars

\* The ranking. A call is given a date, days_back, top_cnt and the clock and
\* outcomes of its run.
TopCounts == {NoneCnt} \cup {Cnt(n) : n \in 0..MaxTopCnt}
RankCalls ==
    ({Ymd(Today - 1), EmptyStr, BadStr} \X {Quiet})
    \cup ({Ymd(Today - 1)} \X {Env(<<"fail">>, <<>>, 1, TRUE),
                                Env(<<>>, <<"ok", "bad">>, 1, TRUE)})

TopByVolume ==
    /\ ncalls = 0
    /\ \E c \in RankCalls, days_back \in {-1, 0, MaxDaysBack}, top_cnt \in TopCounts :
          \E r \in {top_by_volume(Proc(c[2].outcomes, c[2].tod, c[2].adv), c[1],
                                  days_back, top_cnt)} :
              Commit(r.s, [Called("top_by_volume")
                              EXCEPT !.date = c[1], !.days_back = days_back,
                                     !.top_cnt = top_cnt, !.ret = r.ret,
                                     !.exc = r.exc, !.ranked = r.ranked,
                                     !.data = r.data_index,
                                     !.collect = r.collect, !.env = c[2]])

\* The process starts without the files, or with the price file an earlier
\* run left: B's candle of yesterday, of a volume that makes B's total A's.
CandleB == Candle(20, 23, 19, 21, 7)
InitRank ==
    /\ \/ InitProcess({NoFile}, {NoFile})
       \/ InitProcess({NoFile},
                      {File(wp_frame(Ymd(Today - 1), <<[k |-> "B", v |-> CandleB]>>))})
    /\ \E w \in Worlds : netIndex = w.index /\ halted = w.halted

NextRank == TopByVolume

SpecRank == InitRank /\ [][NextRank]_vars

\* The screener. The remote has the index for the six days before today,
\* with both tickers, or with B halted; a call is given a date, sec_cnt,
\* look_back, the two thresholds and the clock and outcomes of its run.
Week(rows) == [d \in (Today - 6)..(Today - 1) |-> rows]
ScreenCalls ==
    ({Ymd(Today - 1), Ymd(Today - 2), Ymd(Today), EmptyStr, BadStr, NonStr} \X {Quiet})
    \cup ({Ymd(Today - 1)} \X {Env(<<"fail">>, <<>>, 1, TRUE),
                                Env(<<>>, <<"fail">>, 1, TRUE),
                                Env(<<>>, <<"ok", "bad">>, 1, TRUE)})
LookBacks == {1, 2}
Thresholds == {<<Fl(0), Fl(-1)>>, <<Fl(1), Fl(1)>>, <<Fl(100), Fl(-1)>>}

GetTradableSecurities ==
    /\ ncalls = 0
    /\ \E c \in ScreenCalls, sec_cnt \in 1..MaxTopCnt, look_back \in LookBacks,
          th \in Thresholds :
          \E r \in {get_tradable_securities(Proc(c[2].outcomes, c[2].tod, c[2].adv),
                                            c[1], sec_cnt, look_back, th[1], th[2])} :
              Commit(r.s, [Called("get_tradable_securities")
                              EXCEPT !.date = c[1], !.top_cnt = Cnt(sec_cnt),
                                     !.look_back = look_back, !.min_act = th[1],
                                     !.min_corr = th[2], !.ret = r.ret, !.exc = r.exc,
                                     !.data = r.data_index, !.tickers = r.top_sec,
                                     !.moex_hist = r.moex_hist, !.ewi_df = r.ewi_df,
                                     !.reached = r.reached])

InitScreen ==
    /\ InitProcess({NoFile}, {NoFile})
    /\ netIndex = Week(<<"A", "B">>)
    /\ halted \in {{}, {"B"}}

NextScreen == GetTradableSecurities

SpecScreen == InitScreen /\ [][NextScreen]_vars

----------------------------------------------------------------------------
(* Processes that share the two cache files. Each process has imported     *)
(* moex_api.py, so it has its own two flags, and runs the cache writers    *)
(* step by step: the test of the flag, read_parquet, the merge, to_parquet. *)
(* Nothing orders the steps of one process against those of another.       *)

Writers == {1, 2}

\* The DataFrame _save_moex_list builds from its arguments.
list_frame(date, date_from, tickers) ==
    [i \in 1..Len(tickers) |->
        [date |-> date, date_from |-> date_from, ticker |-> tickers[i]]]

\* A process between two calls: flagL and flagWP are its
\* is_moex_data_list_file_exists and is_moex_data_wp_file_exists; df,
\* old_moex and new_moex the variables of the writer it runs; writtenL and
\* writtenWP the rows its to_parquet calls have put in each file, raised
\* whether its last call ended in an exception.
Imported(flagL, flagWP) ==
    [pc |-> "idle", fn |-> "", df |-> <<>>, old_moex |-> <<>>, new_moex |-> <<>>,
     flagL |-> flagL, flagWP |-> flagWP,
     writtenL |-> {}, writtenWP |-> {}, calls |-> 0, raised |-> FALSE]

\* The writes the processes make: membership rows and price rows of
\* yesterday, some with a missing value.
SharedWrites ==
    {[fn |-> "_save_moex_list",
      df |-> list_frame(Ymd(Today - 1), Ymd(Today - 2), tickers)] :
        tickers \in {<<"A">>, <<"B">>, <<"A", NoneTicker>>}}
    \cup {[fn |-> "_save_moex_wp_data", df |-> wp_frame(Ymd(Today - 1), data)] :
            data \in {<<[k |-> "A", v |-> Candle1]>>,
                      <<[k |-> "B", v |-> CandleNaN]>>}}

\* The file a writer works on.
target(fn) == IF fn = "_save_moex_list" THEN MOEX_DATA_L ELSE MOEX_DATA_WP

\* Process p calls a writer: df is built and the flag tested; when the flag
\* is not set, new_moex is df and the flag is set.
SaveBegin(p) ==
    /\ writers[p].pc = "idle"
    /\ ncalls < MaxWrites
    /\ \E c \in SharedWrites :
          writers' = [writers EXCEPT ![p] =
              IF ~(IF c.fn = "_save_moex_list" THEN @.flagL ELSE @.flagWP)
              THEN [@ EXCEPT !.pc = "write", !.fn = c.fn, !.df = c.df,
                             !.old_moex = <<>>, !.new_moex = c.df,
                             !.flagL = IF c.fn = "_save_moex_list" THEN TRUE ELSE @,
                             !.flagWP = IF c.fn = "_save_moex_wp_data" THEN TRUE ELSE @,
                             !.calls = @ + 1, !.raised = FALSE]
              ELSE [@ EXCEPT !.pc = "read", !.fn = c.fn, !.df = c.df,
                             !.old_moex = <<>>, !.new_moex = <<>>,
                             !.calls = @ + 1, !.raised = FALSE]]
    /\ ncalls' = ncalls + 1
    /\ UNCHANGED <<MOEX_DATA_L, MOEX_DATA_WP, is_moex_data_list_file_exists,
                   is_moex_data_wp_file_exists, netIndex, halted, last, prev>>

\* old_moex = pd.read_parquet(...): the file as it is now; a missing file
\* raises and ends the call.
ReadExisting(p) ==
    /\ writers[p].pc = "read"
    /\ LET file == target(writers[p].fn)
       IN  writers' = [writers EXCEPT ![p] =
               IF file.exists
               THEN [@ EXCEPT !.pc = "merge", !.old_moex = file.rows]
               ELSE [@ EXCEPT !.pc = "idle", !.raised = TRUE]]
    /\ UNCHANGED <<MOEX_DATA_L, MOEX_DATA_WP, is_moex_data_list_file_exists,
                   is_moex_data_wp_file_exists, netIndex, halted, last, prev, ncalls>>

\* new_moex = concat([old_moex, df]).drop_duplicates(...).dropna()
Merge(p) ==
    /\ writers[p].pc = "merge"
    /\ LET w == writers[p]
           merged == drop_duplicates(w.old_moex \o w.df)
       IN  writers' = [writers EXCEPT ![p] =
               [@ EXCEPT !.pc = "write",
                         !.new_moex = IF w.fn = "_save_moex_list"
                                      THEN dropna_list(merged)
                                      ELSE dropna_wp(merged)]]
    /\ UNCHANGED <<MOEX_DATA_L, MOEX_DATA_WP, is_moex_data_list_file_exists,
                   is_moex_data_wp_file_exists, netIndex, halted, last, prev, ncalls>>

\* new_moex.to_parquet(...): the whole file is replaced by new_moex, or the
\* output fails (OSError), the file is left as it was and the call ends in
\* the exception.
Rewrite(p) ==
    /\ writers[p].pc = "write"
    /\ \E ok \in BOOLEAN :
          LET w == writers[p]
              rows == {w.new_moex[i] : i \in DOMAIN w.new_moex}
          IN  /\ writers' = [writers EXCEPT ![p] =
                    IF ~ok THEN [@ EXCEPT !.pc = "idle", !.raised = TRUE]
                    ELSE IF w.fn = "_save_moex_list"
                    THEN [@ EXCEPT !.pc = "idle", !.writtenL = @ \cup rows]
                    ELSE [@ EXCEPT !.pc = "idle", !.writtenWP = @ \cup rows]]
              /\ MOEX_DATA_L' = IF ok /\ w.fn = "_save_moex_list"
                                THEN File(w.new_moex) ELSE MOEX_DATA_L
              /\ MOEX_DATA_WP' = IF ok /\ w.fn = "_save_moex_wp_data"
                                 THEN File(w.new_moex) ELSE MOEX_DATA_WP
    /\ UNCHANGED <<is_moex_data_list_file_exists, is_moex_data_wp_file_exists,
                   netIndex, halted, last, prev, ncalls>>

\* The processes start (import the module) with no file there, or with the
\* files an earlier run left: each sets its flags by what it finds.
InitShared ==
    /\ MOEX_DATA_L \in {NoFile, File(list_frame(Ymd(Today - 2), Ymd(Today - 3), <<"A">>))}
    /\ MOEX_DATA_WP \in {NoFile, File(wp_frame(Ymd(Today - 2), <<[k |-> "A", v |-> Candle1]>>))}
    /\ is_moex_data_list_file_exists = MOEX_DATA_L.exists
    /\ is_moex_data_wp_file_exists = MOEX_DATA_WP.exists
    /\ writers = [p \in Writers |-> Imported(MOEX_DATA_L.exists, MOEX_DATA_WP.exists)]
    /\ last = NoCall
    /\ prev = Summary(NoCall)
    /\ ncalls = 0
    /\ netIndex = Calendar(<<"A", "B">>, <<"A">>)
    /\ halted = {}

NextShared ==
    \E p \in Writers : SaveBegin(p) \/ ReadExisting(p) \/ Merge(p) \/ Rewrite(p)

SpecShared == InitShared /\ [][NextShared]_vars

----------------------------------------------------------------------------
(* Properties of the cache writers (SpecCache).                            *)

\* No two rows of a table share their (date, ticker) key.
UniqueKeys(rows) ==
    \A i, j \in 1..Len(rows) :
        (rows[i].date = rows[j].date /\ rows[i].ticker = rows[j].ticker) => i = j

\* C2: after any sequence of _save_moex_list and _save_moex_wp_data calls,
\* from an absent or an existing file, each cache table holds at most one
\* row per (date, ticker) key, whatever ticker lists were written.
C2_OneRowPerKey ==
    /\ UniqueKeys(MOEX_DATA_L.rows)
    /\ UniqueKeys(MOEX_DATA_WP.rows)

\* C3: writing the same (date, date_from, tickers) to the membership cache
\* twice in a row leaves the table exactly as the first write left it.
C3_SecondWriteChangesNothing ==
    (/\ last.op = "_save_moex_list" /\ prev.op = "_save_moex_list"
     /\ ~last.exc /\ ~prev.exc
     /\ last.date = prev.date /\ last.date_from = prev.date_from
     /\ last.tickers = prev.tickers)
    => MOEX_DATA_L.rows = last.preL.rows

\* The read of load_imoex_list_with_prices (lines 411-434) for one key: the
\* record of the first stored row with the key, or nothing.
read_price(flag, file, date, security) ==
    IF flag /\ wp_select(file.rows, date, security) # <<>>
    THEN <<first_record(wp_select(file.rows, date, security))>>
    ELSE <<>>

HasNaN(c) ==
    c.open = NaN \/ c.high = NaN \/ c.low = NaN \/ c.close = NaN \/ c.volume = NaN

\* C4 as stated: after _save_moex_wp_data(date, data), whatever the cache
\* held before, the read of every written key gives the values written.
C4_ReadGivesWritten ==
    (last.op = "_save_moex_wp_data" /\ ~last.exc)
    => \A i \in 1..Len(last.data) :
          read_price(is_moex_data_wp_file_exists, MOEX_DATA_WP,
                     last.date, last.data[i].k) = <<last.data[i].v>>

\* C4 amended: the read of a written key gives the values written when the
\* key was not stored before and the record has no null field or the write
\* creates the file; for a key stored before (without a null field) it gives
\* the values stored before.
C4_ReadGivesWrittenOrStored ==
    (last.op = "_save_moex_wp_data" /\ ~last.exc)
    => \A i \in 1..Len(last.data) :
          LET before == read_price(last.preFlagWP, last.preWP,
                                   last.date, last.data[i].k)
              after == read_price(is_moex_data_wp_file_exists, MOEX_DATA_WP,
                                  last.date, last.data[i].k)
          IN  /\ (before = <<>> /\ (~last.preFlagWP \/ ~HasNaN(last.data[i].v)))
                    => after = <<last.data[i].v>>
              /\ (before # <<>> /\ ~HasNaN(before[1])) => after = before

\* A write that merged into an existing table, of one new key and of one
\* key stored before with other values.
C4_Witness ==
    /\ last.op = "_save_moex_wp_data" /\ ~last.exc /\ last.preFlagWP
    /\ \E i \in 1..Len(last.data) :
          /\ read_price(last.preFlagWP, last.preWP, last.date, last.data[i].k) = <<>>
          /\ read_price(is_moex_data_wp_file_exists, MOEX_DATA_WP,
                        last.date, last.data[i].k) = <<last.data[i].v>>
    /\ \E d \in WriteDates :
          /\ read_price(TRUE, last.preWP, d, "A") # <<>>
          /\ read_price(TRUE, MOEX_DATA_WP, d, "A")
                = read_price(TRUE, last.preWP, d, "A")

----------------------------------------------------------------------------
(* Properties of the request functions (SpecNet).                          *)

\* C6: get_kline sends at most 5 requests; every attempt before the last
\* one failed, so it stops at the first attempt that does not fail; when
\* that attempt is well-formed (also the 5th) its rows are returned; it
\* gives up only after 5 failures and then returns an empty table with the
\* candle columns, without raising.
C6_KlineRetries ==
    last.op = "get_kline" =>
        LET n == Len(last.log)
        IN  /\ n >= 1 /\ n <= 5
            /\ \A i \in 1..n : last.log[i].ev = "kline_req"
                                /\ last.log[i].ticker = last.security
                                /\ last.log[i].date = last.date
            /\ \A i \in 1..(n - 1) : last.log[i].out = "fail"
            /\ last.log[n].out = "ok" =>
                  /\ ~last.exc
                  /\ last.ret = [cols |-> KlineCols,
                                 rows |-> candles(last.security, last.date.day)]
            /\ last.log[n].out = "fail" =>
                  /\ n = 5
                  /\ ~last.exc
                  /\ last.ret = [cols |-> KlineCols, rows |-> <<>>]

\* Four failures, then a 5th attempt that succeeds and whose candle is returned.
C6_Witness ==
    /\ last.op = "get_kline"
    /\ Len(last.log) = 5
    /\ last.log[5].out = "ok"
    /\ ~last.exc
    /\ last.ret.rows # <<>>

\* C7: whatever the remote does (network error, non-200 status, JSON
\* without the expected keys), get_index_data and get_kline do not raise,
\* and a call that met such a failure returns an empty table with its columns.
C7_NoFailureRaises ==
    last.op \in {"get_kline", "get_index_data"} =>
        /\ ~last.exc
        /\ last.log[Len(last.log)].out # "ok" =>
              /\ last.ret.rows = <<>>
              /\ last.ret.cols = IF last.op = "get_kline" THEN KlineCols ELSE AnalyticsCols

\* The rows received by the first i requests of the last call.
received(i) ==
    LET f[j \in 0..i] ==
            IF j = 0 THEN <<>>
            ELSE f[j - 1] \o page(last.date.day, last.log[j].start)
    IN  f[i]

\* C8: get_index_data requests the page at offset 0, then at the running
\* total of rows received, until a page has no rows; it returns all pages
\* in order, which are the rows the remote holds for the date; when a page
\* request fails it returns an empty table with the analytics columns.
C8_Pagination ==
    last.op = "get_index_data" =>
        LET n == Len(last.log)
        IN  /\ n >= 1
            /\ ~last.exc
            /\ \A i \in 1..n :
                  /\ last.log[i].ev = "index_req"
                  /\ last.log[i].date = last.date
                  /\ last.log[i].start = Len(received(i - 1))
            /\ \A i \in 1..(n - 1) :
                  /\ last.log[i].out = "ok"
                  /\ page(last.date.day, last.log[i].start) # <<>>
            /\ last.log[n].out = "ok" =>
                  /\ page(last.date.day, last.log[n].start) = <<>>
                  /\ last.ret = [cols |-> AnalyticsCols, rows |-> received(n)]
                  /\ last.ret.rows = index_rows(last.date.day)
            /\ last.log[n].out # "ok" =>
                  last.ret = [cols |-> AnalyticsCols, rows |-> <<>>]

\* Three pages and more were fetched and returned as one table.
C8_Witness ==
    /\ last.op = "get_index_data"
    /\ Len(last.log) >= 3
    /\ last.log[Len(last.log)].out = "ok"
    /\ Len(last.ret.rows) > PageSize
    /\ last.ret.rows = index_rows(last.date.day)

\* A page request failed after pages had been received: nothing is returned.
C8_WitnessFailure ==
    /\ last.op = "get_index_data"
    /\ Len(last.log) >= 2
    /\ last.log[Len(last.log)].out = "fail"
    /\ last.ret.rows = <<>>

----------------------------------------------------------------------------
(* The loaders: load_imoex_list and load_imoex_list_with_prices.           *)

\* The cache as the last call found it.
in_list_cache(date) ==
    last.preFlagL /\ list_select(last.preL.rows, date) # <<>>
in_wp_cache(date, ticker) ==
    last.preFlagWP /\ wp_select(last.preWP.rows, date, ticker) # <<>>

IsRequest(e) == e.ev \in {"index_req", "kline_req"}

\* C5: a loader sends no candle request for a (date, ticker) the price cache
\* holds and no analytics request for a date the membership cache holds
\* (keys compared as the lookup compares them); every request comes right
\* after the lookup of its key missed (or after the request of the previous
\* page, or the failed attempt it retries); after a hit no request follows.
C5_ReadBeforeWrite ==
    last.op \in {"load_imoex_list", "load_imoex_list_with_prices"} =>
        \A i \in DOMAIN last.log :
            LET e == last.log[i]
            IN  /\ e.ev = "index_req" =>
                    /\ ~in_list_cache(e.date)
                    /\ i > 1
                    /\ IF e.start = 0
                       THEN last.log[i - 1] = Event("list_cache", e.date, "", 0, "miss")
                       ELSE last.log[i - 1] =
                                Event("index_req", e.date, "", last.log[i - 1].start, "ok")
                /\ e.ev = "kline_req" =>
                    /\ ~in_wp_cache(e.date, e.ticker)
                    /\ i > 1
                    /\ last.log[i - 1] \in
                           {Event("wp_cache", e.date, e.ticker, 0, "miss"),
                            Event("kline_req", e.date, e.ticker, 0, "fail")}
                /\ e.ev = "list_cache" => ((e.out = "hit") <=> in_list_cache(e.date))
                /\ e.ev = "wp_cache" => ((e.out = "hit") <=> in_wp_cache(e.date, e.ticker))
                /\ (e.out = "hit" /\ i < Len(last.log)) => ~IsRequest(last.log[i + 1])

\* A call served from the two caches alone: no request was sent.
C5_Witness ==
    /\ last.op = "load_imoex_list_with_prices"
    /\ ~last.exc
    /\ last.ret[1].v # <<>>
    /\ \E i \in DOMAIN last.log : last.log[i].ev = "list_cache" /\ last.log[i].out = "hit"
    /\ \E i \in DOMAIN last.log : last.log[i].ev = "wp_cache" /\ last.log[i].out = "hit"
    /\ \A i \in DOMAIN last.log : ~IsRequest(last.log[i])

\* The days load_imoex_list looked at, in order.
days_examined == SelectSeq(last.log, LAMBDA e : e.ev = "list_cache")

\* The analytics request of the day failed during the call.
request_failed(date) ==
    \E i \in DOMAIN last.log :
        /\ last.log[i].ev = "index_req"
        /\ last.log[i].date = date
        /\ last.log[i].out # "ok"

\* The membership of a day as the call can see it: the cache's rows for the
\* day, else what the remote gives for it.
membership(day) ==
    IF in_list_cache(Ymd(day))
    THEN list_select(last.preL.rows, Ymd(day))
    ELSE IF request_failed(Ymd(day)) THEN <<>> ELSE index_rows(day)

SearchDays == 30
window == {last.start.day - i : i \in 0..(SearchDays - 1)}
with_data == {d \in window : membership(d) # <<>>}
newest == CHOOSE d \in with_data : \A e \in with_data : e <= d

\* C9: load_imoex_list looks at no more than 30 days, consecutive and going
\* back from the day it starts at; it returns the most recent of the 30 whose
\* membership is not empty, with that day's tickers, and an empty list when
\* none of the 30 has any.
C9_MostRecentWithData ==
    (last.op = "load_imoex_list" /\ ~last.exc) =>
        /\ Len(days_examined) <= SearchDays
        /\ \A i \in DOMAIN days_examined :
               days_examined[i].date = Ymd(last.start.day - (i - 1))
        /\ IF with_data = {}
           THEN /\ Len(days_examined) = SearchDays
                /\ last.ret = <<[k |-> Ymd(last.start.day - SearchDays), v |-> <<>>]>>
           ELSE /\ Len(days_examined) = last.start.day - newest + 1
                /\ last.ret = <<[k |-> Ymd(newest), v |-> membership(newest)]>>

\* The search stepped back over a day without data to one that has some.
C9_Witness ==
    /\ last.op = "load_imoex_list"
    /\ ~last.exc
    /\ Len(days_examined) >= 2
    /\ last.ret[1].v # <<>>
    /\ last.ret[1].k = Ymd(last.start.day - Len(days_examined) + 1)

\* None of the 30 days has data.
C9_WitnessNoData ==
    /\ last.op = "load_imoex_list"
    /\ ~last.exc
    /\ Len(days_examined) = SearchDays
    /\ last.ret[1].v = <<>>

\* The requested date as _format_date and strftime normalise it.
normalized(date) ==
    IF date.k = "empty" \/ date.day > Today THEN Ymd(Today) ELSE Ymd(date.day)

\* What the lookup of a constituent's candle gave during the call: the
\* cache's rows, else the rows of the request that was answered.
lookup(date, ticker) ==
    IF in_wp_cache(date, ticker)
    THEN wp_select(last.preWP.rows, date, ticker)
    ELSE IF \E i \in DOMAIN last.log :
                last.log[i] = Event("kline_req", date, ticker, 0, "ok")
    THEN candles(ticker, date.day)
    ELSE <<>>

\* C10: load_imoex_list_with_prices, given a date it accepts, returns a dict
\* with one key, the normalised requested date, and under it exactly the
\* constituents of the resolved list whose lookup (cache or request) gave a
\* candle, each with that candle; with no constituent or no candle at all the
\* value is {} and, as long as no request is answered with a payload
\* get_kline cannot read, the call does not raise.
C10_OneKeyNonEmptyLookups ==
    (last.op = "load_imoex_list_with_prices" /\ last.date.k \in {"ymd", "empty"}) =>
        LET date == normalized(last.date)
            kept == {t \in {last.tickers[i] : i \in DOMAIN last.tickers} :
                        lookup(date, t) # <<>>}
        IN  /\ (\A i \in DOMAIN last.log : last.log[i].out # "bad") => ~last.exc
            /\ ~last.exc =>
                /\ Len(last.ret) = 1
                /\ last.ret[1].k = date
                /\ dict_keys(last.ret[1].v) = kept
                /\ Len(last.ret[1].v) = Cardinality(kept)
                /\ \A t \in kept :
                       dict_get(last.ret[1].v, t) = first_record(lookup(date, t))

\* A constituent without a candle was dropped, another kept.
C10_Witness ==
    /\ last.op = "load_imoex_list_with_prices"
    /\ ~last.exc
    /\ last.ret[1].v # <<>>
    /\ \E i \in DOMAIN last.tickers : ~dict_has(last.ret[1].v, last.tickers[i])

\* No constituent was resolved: the value is the empty dict.
C10_WitnessNoConstituent ==
    /\ last.op = "load_imoex_list_with_prices"
    /\ ~last.exc
    /\ last.tickers = <<>>
    /\ last.ret = <<[k |-> normalized(last.date), v |-> <<>>]>>

\* Every request failed or came back empty: the value is the empty dict.
C10_WitnessEveryFetchEmpty ==
    /\ last.op = "load_imoex_list_with_prices"
    /\ ~last.exc
    /\ last.tickers # <<>>
    /\ last.ret = <<[k |-> normalized(last.date), v |-> <<>>]>>

----------------------------------------------------------------------------
(* The history collector: load_available_history_imoex_list_with_prices_to. *)

IsCollected ==
    last.op = "load_available_history_imoex_list_with_prices_to" /\ ~last.exc

\* C1 as stated, for every date argument: the call returns at least
\* days_back + 1 dated entries, or its budget of 30 + days_back days is spent.
C1_EnoughOrExhausted ==
    IsCollected => (Len(last.ret) >= last.days_back + 1 \/ last.try_cnt = 0)

\* C1, for a date _format_date accepts: the call returns at least
\* days_back + 1 dated entries, or its budget of 30 + days_back days is
\* spent; for a date it rejects the call returns the one entry {today: {}}
\* and the budget is untouched.
C1_EnoughOrExhaustedValidDate ==
    IsCollected =>
        IF last.date.k \in {"ymd", "empty"}
        THEN Len(last.ret) >= last.days_back + 1 \/ last.try_cnt = 0
        ELSE /\ last.ret = <<[k |-> Ymd(Today), v |-> <<>>]>>
             /\ last.try_cnt = 30 + last.days_back

\* Enough sessions were found after an empty day was skipped, budget left.
C1_Witness ==
    /\ IsCollected
    /\ last.date.k = "ymd"
    /\ last.days_back >= 1
    /\ Len(last.ret) = last.days_back + 1
    /\ last.try_cnt > 0
    /\ last.try_cnt < 30 + last.days_back - Len(last.ret)

\* The budget was spent before enough sessions were found.
C1_WitnessExhausted ==
    /\ IsCollected
    /\ last.date.k = "ymd"
    /\ last.ret # <<>>
    /\ Len(last.ret) < last.days_back + 1
    /\ last.try_cnt = 0

----------------------------------------------------------------------------
(* The ranking: top_by_volume.                                             *)

\* The call returned a ranking of the history it collected (last.data).
IsRanked == last.op = "top_by_volume" /\ ~last.exc /\ last.ranked

collected == UNION {dict_keys(last.data[i].v) : i \in DOMAIN last.data}

\* A ticker's volume summed over the collected sessions.
total_volume(ticker) ==
    LET sum[i \in 0..Len(last.data)] ==
            IF i = 0 THEN 0
            ELSE sum[i - 1] + (IF dict_has(last.data[i].v, ticker)
                               THEN dict_get(last.data[i].v, ticker).volume
                               ELSE 0)
    IN  sum[Len(last.data)]

\* Where a ticker is met first: the session, then the place in the session.
encounter(ticker) ==
    LET i == CHOOSE i \in DOMAIN last.data :
                 /\ dict_has(last.data[i].v, ticker)
                 /\ \A h \in 1..(i - 1) : ~dict_has(last.data[h].v, ticker)
        j == CHOOSE j \in DOMAIN last.data[i].v : last.data[i].v[j].k = ticker
    IN  <<i, j>>

\* a ranks before b: more volume, or the same and met earlier.
ranks_before(a, b) ==
    \/ total_volume(a) > total_volume(b)
    \/ /\ total_volume(a) = total_volume(b)
       /\ \/ encounter(a)[1] < encounter(b)[1]
          \/ encounter(a)[1] = encounter(b)[1] /\ encounter(a)[2] < encounter(b)[2]

\* C11: top_by_volume (top_cnt omitted or >= 0) returns collected tickers
\* only, each at most once, in order of non-increasing summed volume with
\* tickers of the same volume in the order they were met; the list is the
\* first min(top_cnt, number of tickers) of that order, all of it when
\* top_cnt is omitted.
C11_RankedByVolume ==
    IsRanked =>
        /\ \A i \in DOMAIN last.ret : last.ret[i] \in collected
        /\ \A i, j \in DOMAIN last.ret : i < j => ranks_before(last.ret[i], last.ret[j])
        /\ \A i \in DOMAIN last.ret :
               \A b \in collected \ {last.ret[j] : j \in DOMAIN last.ret} :
                   ranks_before(last.ret[i], b)
        /\ Len(last.ret) = IF last.top_cnt = NoneCnt
                              \/ last.top_cnt[1] > Cardinality(collected)
                           THEN Cardinality(collected)
                           ELSE last.top_cnt[1]

\* The sort moved a ticker met later, of more volume, to the front.
C11_Witness ==
    /\ IsRanked
    /\ Len(last.ret) >= 2
    /\ total_volume(last.ret[1]) > total_volume(last.ret[2])
    /\ encounter(last.ret[2])[1] = 1
    /\ encounter(last.ret[1])[1] = 1
    /\ encounter(last.ret[2])[2] < encounter(last.ret[1])[2]

\* Two tickers of the same summed volume, over more than one session.
C11_WitnessTie ==
    /\ IsRanked
    /\ Len(last.data) >= 2
    /\ Len(last.ret) >= 2
    /\ total_volume(last.ret[1]) = total_volume(last.ret[2])

\* top_cnt cut the list.
C11_WitnessTruncated ==
    /\ IsRanked
    /\ last.top_cnt # NoneCnt
    /\ Len(last.ret) = last.top_cnt[1]
    /\ Len(last.ret) >= 1
    /\ Len(last.ret) < Cardinality(collected)

----------------------------------------------------------------------------
(* The indicators.                                                         *)

\* C12: equal_weighted_index gives, for each date with a ticker and each of
\* open, high, low, close, exactly the largest input value of the field over
\* the date's tickers, and no key for a date without tickers.
C12_IndexIsMaximum ==
    last.op = "equal_weighted_index" =>
        /\ dict_keys(last.ret) = {last.data[i].k : i \in {j \in DOMAIN last.data :
                                                           last.data[j].v # <<>>}}
        /\ \A i \in DOMAIN last.data :
               last.data[i].v # <<>> =>
                   \A f \in {"open", "high", "low", "close"} :
                       LET out == dict_get(last.ret, last.data[i].k)[f]
                           tickers == last.data[i].v
                       IN  /\ \E j \in DOMAIN tickers : tickers[j].v[f] = out
                           /\ \A j \in DOMAIN tickers : ~fl_lt(out, tickers[j].v[f])

true_range(t) ==
    LET hl == fl_sub(last.data[t].high, last.data[t].low)
        hc == fl_abs(fl_sub(last.data[t].high, last.data[t - 1].close))
        lc == fl_abs(fl_sub(last.data[t].low, last.data[t - 1].close))
        m == IF fl_lt(hl, hc) THEN hc ELSE hl
    IN  IF fl_lt(m, lc) THEN lc ELSE m

\* C14: atr with period = 1 has one row per input row, in order; atr is
\* high - low on the first row and the true range on every other, never
\* missing.
C14_PeriodOneIsTrueRange ==
    (last.op = "atr" /\ last.period = 1) =>
        /\ Len(last.ret) = Len(last.data)
        /\ \A t \in DOMAIN last.ret :
               /\ last.ret[t].date = last.data[t].date
               /\ last.ret[t].atr # FNaN
               /\ t = 1 => last.ret[t].atr = fl_sub(last.data[t].high, last.data[t].low)
               /\ t > 1 => last.ret[t].atr = true_range(t)

\* Rows whose true range is each of the three terms.
C14_Witness ==
    /\ last.op = "atr"
    /\ last.period = 1
    /\ Len(last.ret) = 3
    /\ \E t \in 2..3 :
           fl_lt(fl_sub(last.data[t].high, last.data[t].low), last.ret[t].atr)
    /\ \E t \in 2..3 :
           last.ret[t].atr = fl_sub(last.data[t].high, last.data[t].low)

----------------------------------------------------------------------------
(* The history collector, day by day.                                      *)

\* The call was given a date _format_date accepts.
IsCollectedFrom ==
    /\ last.op = "load_available_history_imoex_list_with_prices_to"
    /\ last.date.k \in {"ymd", "empty"}

\* The calls of load_imoex_list_with_prices that returned a session.
sessions == SelectSeq(last.calls, LAMBDA c : c.ret # <<>>)

\* C17: for days_back >= 0 the collector's keys are the most recent days
\* with a session: of the days it asked load_imoex_list_with_prices for,
\* consecutive and going back from the normalised date, the first
\* min(days_back + 1, k) whose result is not empty, each with that result;
\* no day with an empty result is a key; when fewer than days_back + 1
\* were found all of the 30 + days_back days were asked for.
C17_MostRecentSessions ==
    (IsCollectedFrom /\ ~last.exc) =>
        LET n == IF Len(sessions) < last.days_back + 1
                 THEN Len(sessions) ELSE last.days_back + 1
        IN  /\ \A i \in DOMAIN last.calls :
                   last.calls[i].date = Ymd(normalized(last.date).day - (i - 1))
            /\ Len(last.calls) <= 30 + last.days_back
            /\ Len(last.ret) = n
            /\ \A i \in 1..n : last.ret[i] = [k |-> sessions[i].date, v |-> sessions[i].ret]
            /\ Len(sessions) = n
            /\ n < last.days_back + 1 => Len(last.calls) = 30 + last.days_back

\* Two sessions were asked for and found behind a day without one.
C17_Witness ==
    /\ IsCollectedFrom
    /\ ~last.exc
    /\ last.days_back >= 1
    /\ Len(last.ret) = last.days_back + 1
    /\ last.calls[1].ret = <<>>
    /\ Len(last.calls) < 30 + last.days_back

\* Fewer sessions than asked for in the whole of the 30 + days_back days.
C17_WitnessFewer ==
    /\ IsCollectedFrom
    /\ ~last.exc
    /\ last.ret # <<>>
    /\ Len(last.ret) < last.days_back + 1
    /\ Len(last.calls) = 30 + last.days_back

\* C18: the collector ends after at most 30 + days_back calls of
\* load_imoex_list_with_prices; each call that returns, with a session or
\* without, costs one try and moves the date one day back, and the loop is
\* over when the collector returns.
C18_BudgetBoundsCalls ==
    IsCollectedFrom =>
        /\ Len(last.calls) <= 30 + last.days_back
        /\ \A i \in DOMAIN last.calls :
               last.calls[i].date = Ymd(normalized(last.date).day - (i - 1))
        /\ \A i \in DOMAIN last.calls : last.calls[i].exc => i = Len(last.calls)
        /\ ~last.exc =>
               /\ last.try_cnt = 30 + last.days_back - Len(last.calls)
               /\ ~(Len(last.ret) <= last.days_back /\ last.try_cnt > 0)

\* The whole budget was spent, on days with a session and days without.
C18_Witness ==
    /\ IsCollectedFrom
    /\ ~last.exc
    /\ last.try_cnt = 0
    /\ Len(last.calls) = 30 + last.days_back
    /\ \E i \in DOMAIN last.calls : last.calls[i].ret # <<>>
    /\ \E i \in DOMAIN last.calls : last.calls[i].ret = <<>>

\* The collector returned early, with budget left.
C18_WitnessEarly ==
    /\ IsCollectedFrom
    /\ ~last.exc
    /\ last.try_cnt > 0
    /\ Len(last.calls) >= 2

----------------------------------------------------------------------------
(* What the loaders write and ask for.                                     *)

\* C19: when load_imoex_list ends its search with an empty list it writes
\* nothing: the membership file and its exists-flag are as before the call.
C19_EmptyNotPersisted ==
    (last.op = "load_imoex_list" /\ ~last.exc /\ last.ret[1].v = <<>>) =>
        /\ MOEX_DATA_L = last.preL
        /\ is_moex_data_list_file_exists = last.preFlagL

\* C20: every price-cache lookup and every candle request of
\* load_imoex_list_with_prices is for last_date, the day load_imoex_list
\* returned.
C20_LookupsForResolvedDate ==
    (last.op = "load_imoex_list_with_prices" /\ ~last.exc) =>
        \A i \in DOMAIN last.log :
            last.log[i].ev \in {"wp_cache", "kline_req"} =>
                last.log[i].date = last.last_date

----------------------------------------------------------------------------
(* The screener: get_tradable_securities.                                  *)

IsScreened == last.op = "get_tradable_securities" /\ ~last.exc

\* The tickers of the history the call collected.
history_tickers ==
    UNION {dict_keys(last.data[i].v) : i \in DOMAIN last.data}

\* The volume of a ticker summed over the history the call collected.
history_volume(ticker) ==
    LET sum[i \in 0..Len(last.data)] ==
            IF i = 0 THEN 0
            ELSE sum[i - 1] + (IF dict_has(last.data[i].v, ticker)
                               THEN dict_get(last.data[i].v, ticker).volume ELSE 0)
    IN  sum[Len(last.data)]

\* The ticker has a correlation and an activity on the requested date.
has_scores(ticker) ==
    LET end_dt == normalized(last.date)
        rows == SelectSeq(last.moex_hist, LAMBDA r : r.ticker = ticker)
        sec_df == sec_frame(rows, last.ewi_df[1].date, end_dt, <<ticker>>, ticker)
        sc == sec_scores(sec_df, last.ewi_df, last.look_back, end_dt)
    IN  /\ sc.corr # <<>>
        /\ sc.activity # <<>>
        /\ sc.activity[1].activity # FNaN

\* The history has the requested date, every ticker of it has its scores
\* there and the thresholds let everything through.
Permissive ==
    /\ IsScreened
    /\ last.min_act = Fl(0)
    /\ last.min_corr = Fl(-1)
    /\ dict_has(last.data, normalized(last.date))
    /\ \A t \in history_tickers : has_scores(t)

\* C15: with min_act = 0 and min_corr = -1, on a history where every ticker
\* has a correlation and an activity on the requested date,
\* get_tradable_securities returns the sec_cnt tickers of the largest volume
\* summed over the history, largest first.
C15_TopByHistoryVolume ==
    Permissive =>
        /\ Len(last.ret) = IF last.top_cnt[1] < Cardinality(history_tickers)
                           THEN last.top_cnt[1] ELSE Cardinality(history_tickers)
        /\ \A i \in DOMAIN last.ret : last.ret[i] \in history_tickers
        /\ \A i, j \in DOMAIN last.ret :
               i < j => /\ last.ret[i] # last.ret[j]
                        /\ history_volume(last.ret[i]) >= history_volume(last.ret[j])
        /\ \A t \in history_tickers :
               (\A i \in DOMAIN last.ret : last.ret[i] # t) =>
                   \A i \in DOMAIN last.ret :
                       history_volume(last.ret[i]) >= history_volume(t)

\* C16: get_tradable_securities raises nothing, whatever the date and
\* whatever the remote does.
C16_NeverRaises ==
    last.op = "get_tradable_securities" => ~last.exc

----------------------------------------------------------------------------
(* load_imoex_list and today.                                              *)

\* C21: when the date load_imoex_list is given normalises to today ("",
\* today's date or a later one), the first day it looks up, in the cache or
\* at the remote, is yesterday.
C21_TodayStepsBack ==
    (last.op = "load_imoex_list" /\ ~last.exc /\ last.date.k \in {"ymd", "empty"}
        /\ normalized(last.date) = Ymd(Today)) =>
        /\ days_examined # <<>>
        /\ days_examined[1].date = Ymd(Today - 1)

----------------------------------------------------------------------------
(* The cache tables under writes.                                          *)

IsWrite == last.op \in {"_save_moex_list", "_save_moex_wp_data"} /\ ~last.exc

\* The first row of a table with the key of row r.
first_of_key(rows, r) ==
    rows[CHOOSE i \in DOMAIN rows :
            /\ rows[i].date = r.date /\ rows[i].ticker = r.ticker
            /\ \A j \in 1..(i - 1) :
                   ~(rows[j].date = r.date /\ rows[j].ticker = r.ticker)]

\* Every row of table old is a row of table new, and the first row of each
\* of old's keys is the first row of that key in new.
kept(old, new) ==
    \A i \in DOMAIN old :
        /\ \E j \in DOMAIN new : new[j] = old[i]
        /\ first_of_key(new, old[i]) = first_of_key(old, old[i])

\* C22: a cache write alters and removes no stored row: every row stored
\* before the write is stored after it, and a key that was stored keeps the
\* values it had.
C22_StoredRowsKept ==
    IsWrite => /\ kept(last.preL.rows, MOEX_DATA_L.rows)
               /\ kept(last.preWP.rows, MOEX_DATA_WP.rows)

----------------------------------------------------------------------------
(* The range collector.                                                    *)

IsRange == last.op = "load_history_imoex_list_with_prices"

\* C23: between two dates _format_date accepts, the range collector calls
\* load_imoex_list_with_prices once for every calendar day from the start
\* day to the end day, in ascending order, and returns one key per day, each
\* with that call's result (empty results included); when the two days are
\* the same day it returns exactly what the one call for that day returned.
C23_EveryDayOfRange ==
    (IsRange /\ ~last.exc /\ last.date.k \in {"ymd", "empty"}
        /\ last.end_date.k \in {"ymd", "empty"}
        /\ normalized(last.date).day <= normalized(last.end_date).day) =>
        LET a == normalized(last.date).day
            b == normalized(last.end_date).day
        IN  /\ Len(last.calls) = b - a + 1
            /\ \A i \in DOMAIN last.calls : last.calls[i].date = Ymd(a + i - 1)
            /\ Len(last.ret) = b - a + 1
            /\ \A i \in DOMAIN last.ret :
                  last.ret[i] = [k |-> last.calls[i].date, v |-> last.calls[i].ret]

\* Three days were collected, the last of them without a session.
C23_Reached ==
    /\ IsRange
    /\ ~last.exc
    /\ Len(last.calls) = 3
    /\ Len(last.ret) = 3
    /\ last.ret[3].v = <<>>
    /\ last.ret[1].v # <<>>

IsFallback ==
    \/ IsRange /\ (last.date.k \in {"bad", "nonstr"} \/ last.end_date.k \in {"bad", "nonstr"})
    \/ /\ last.op = "load_available_history_imoex_list_with_prices_to"
       /\ last.date.k \in {"bad", "nonstr"}

\* C24: given a date _format_date rejects, either collector returns the one
\* entry {today: {}} without raising, sends no request and leaves the two
\* cache files and their flags as they were.
C24_InvalidDateFallback ==
    IsFallback =>
        /\ ~last.exc
        /\ last.ret = <<[k |-> Ymd(Today), v |-> <<>>]>>
        /\ \A i \in DOMAIN last.log : ~IsRequest(last.log[i])
        /\ last.calls = <<>>
        /\ MOEX_DATA_L = last.preL
        /\ MOEX_DATA_WP = last.preWP
        /\ is_moex_data_list_file_exists = last.preFlagL
        /\ is_moex_data_wp_file_exists = last.preFlagWP

\* The range collector fell back on an end date that is not a date, after a
\* start date that is one.
C24_Witness ==
    /\ IsRange
    /\ last.date.k = "ymd"
    /\ last.end_date.k = "bad"
    /\ last.ret = <<[k |-> Ymd(Today), v |-> <<>>]>>

\* The history collector fell back on a date that is not a string.
C24_WitnessBackward ==
    /\ last.op = "load_available_history_imoex_list_with_prices_to"
    /\ last.date.k = "nonstr"
    /\ ncalls = 1
    /\ last.ret = <<[k |-> Ymd(Today), v |-> <<>>]>>

\* C25: load_imoex_list, given a date _format_date rejects, does not raise.
C25_InvalidDateCaught ==
    (last.op = "load_imoex_list" /\ last.date.k \in {"bad", "nonstr"}) => ~last.exc

----------------------------------------------------------------------------
(* The ranking and its days_back argument.                                 *)

\* The process as it was when the last call began.
ProcBefore ==
    [L |-> last.preL, WP |-> last.preWP,
     flagL |-> last.preFlagL, flagWP |-> last.preFlagWP,
     tod |-> last.env.tod, adv |-> last.env.adv,
     outcomes |-> last.env.outcomes, log |-> <<>>]

\* C26: top_by_volume collects 3 sessions back whatever days_back >= 0 it
\* is given: the same call with any other days_back >= 0 (same date,
\* top_cnt, files, clock and remote) makes the same call of the history
\* collector, collects the same history and returns the same list.
C26_DaysBackIgnored ==
    (last.op = "top_by_volume" /\ last.days_back >= 0) =>
        /\ \A i \in DOMAIN last.collect : last.collect[i].days_back = 3
        /\ \A d \in 0..(MaxDaysBack + 1) :
              \A r \in {top_by_volume(ProcBefore, last.date, d, last.top_cnt)} :
                  /\ r.collect = last.collect
                  /\ r.data_index = last.data
                  /\ r.ret = last.ret
                  /\ r.exc = last.exc

\* Asked for days_back = 0, the ranking is over two sessions.
C26_Witness ==
    /\ last.op = "top_by_volume"
    /\ last.days_back = 0
    /\ last.ranked
    /\ Len(last.data) = 2
    /\ last.ret # <<>>

\* C27: when the history the screener collected has no entry for the
\* (normalised) date it was given, the call returns the empty list right
\* after collecting: no index series is computed and no ranking is made.
C27_NoSessionNoScreening ==
    (IsScreened /\ last.date.k \in {"ymd", "empty"}
        /\ ~dict_has(last.data, normalized(last.date))) =>
        /\ last.ret = <<>>
        /\ last.reached = "history"
        /\ last.ewi_df = <<>>
        /\ last.tickers = <<>>
        /\ last.moex_hist = <<>>

\* Asked for today, a day without a session, with sessions on the days
\* before it.
C27_Witness ==
    /\ IsScreened
    /\ last.date = Ymd(Today)
    /\ Len(last.data) = last.look_back + 4
    /\ ~dict_has(last.data, Ymd(Today))
    /\ last.ret = <<>>

----------------------------------------------------------------------------
(* Processes sharing the cache files (SpecShared).                         *)

AllIdle == \A p \in DOMAIN writers : writers[p].pc = "idle"

rows_of(file) == {file.rows[i] : i \in DOMAIN file.rows}

\* The rows process p has put in a file and that file does not hold.
lostL(p) == writers[p].writtenL \ rows_of(MOEX_DATA_L)
lostWP(p) == writers[p].writtenWP \ rows_of(MOEX_DATA_WP)

\* Only process p has called a writer.
Alone(p) ==
    /\ p \in DOMAIN writers
    /\ \A q \in DOMAIN writers : q # p => writers[q].calls = 0

\* C28: two processes writing one file can lose a row one of them wrote
\* (see C28_LostUpdate); with a single writer, every row the process has
\* put in a file is in the file whenever the process is between two calls.
C28_SingleWriterLosesNothing ==
    \A p \in DOMAIN writers :
        (Alone(p) /\ AllIdle) => (lostL(p) = {} /\ lostWP(p) = {})

\* A lost update: both processes have written the membership file, and a
\* row one of them wrote, with no missing value in it, is not in the file.
C28_LostUpdate ==
    /\ AllIdle
    /\ \A p \in DOMAIN writers : writers[p].writtenL # {}
    /\ \E p \in DOMAIN writers : \E r \in lostL(p) : r.ticker # NoneTicker

\* C30: in a process that runs alone and is between two calls, a flag that
\* is set means the file is there, whatever writes were made before and
\* whether or not their file output failed.
C30_FlagMeansFile ==
    \A p \in DOMAIN writers :
        (Alone(p) /\ writers[p].pc = "idle") =>
            /\ writers[p].flagL => MOEX_DATA_L.exists
            /\ writers[p].flagWP => MOEX_DATA_WP.exists

\* C29: two calls of load_imoex_list in a row with the same date, the
\* remote answering every request of both, return the same dict: the same
\* resolved date and the same ticker list.
C29_SameAnswerFromCache ==
    (/\ last.op = "load_imoex_list" /\ prev.op = "load_imoex_list"
     /\ last.date = prev.date
     /\ last.env = Quiet /\ prev.env = Quiet
     /\ ~last.exc /\ ~prev.exc) =>
        last.ret = prev.ret

====
